---- MODULE Spec2Model ----
(***************************************************************************)
(* Frame-batch analysis pipeline of backend/app/services/gpt_service.py:   *)
(* GPTService.batch_analyze_frames, analyze_batch_with_semaphore and       *)
(* GPTService.analyze_frame_batch, as a state machine.  One job runs on a  *)
(* list of frame dicts that the code mutates in place; the batch tasks     *)
(* are asyncio tasks that interleave at their await points.                *)
(***************************************************************************)
EXTENDS Integers, Sequences, FiniteSets, TLC

\* ---- bounds of the model ------------------------------------------------
MaxFrames == 2
MaxBatchSize == 2
MaxWorkers == 2
MaxResults == 2
\* frames of the input that have no image path
MaxNoImage == 1
\* calls of one job that fail or whose reply is not the requested
\* {"frames": [one full object per frame]}
MaxDeviations == 1
\* frames and batch sizes of the planning-only specification
MaxPlanFrames == 7
MaxPlanBatchSize == 4
\* length of the custom rules strings that are enumerated in full
MaxRulesLen == 2
\* words of prose that a reply puts before its fenced block
MaxProseWords == 1
\* tokens of a prompt template handed to str.format
MaxTemplateLen == 3
\* properties of a decoded JSON object
MaxProps == 2
\* frame rate of a video, and the number of its frames
MaxFps == 3
MaxVideoLen == 7
\* concurrent create_upload calls, rows in the table before them, and database
\* calls that fail for a reason other than the unique constraint
MaxCalls == 2
MaxExisting == 2
MaxDbErrors == 1
\* tokens of the content that the preview content[:200] of a parse error holds
PreviewLen == 4

\* ---- program constants --------------------------------------------------
\* effective_batch_size = min(batch_size, 2) for the custom endpoint
CustomBatchCeiling == 2
\* max_retries of create_upload
MaxRetries == 5
\* the 4 of zfill(4) and of RIGHT(video_file_number, 4)
SeqWidth == 4

\* ---- values of dict fields ----------------------------------------------
\* a key that the dict does not have / Python None
NoKey == "<no key>"
None == "<None>"
EmptyList == "[]"

MsgNoKey == "OpenAI API key not configured"
MsgOversize == "Request payload too large (413). Batch size needs to be reduced."
MsgTimeout == "GPT API call timed out after 5 minutes. Batch may be too large or API is slow."
MsgTransport == "transport error"
MsgIO == "cannot read image file"
MsgJSON == "Expecting value: line 1 column 1 (char 0)"
MsgNoneContent == "'NoneType' object is not subscriptable"
MsgNoFrames == "Could not find frames array in response."
MsgUnexpected == "Unexpected response format"
MsgNotDict == "'str' object has no attribute 'get'"
MsgMissing == "Missing result in batch response"

\* elements of a decoded result array: a full frame object, an empty object,
\* and a JSON string (not an object). The timestamp is <<>> when the element
\* has no such key; the full object always reports the timestamp 1, whatever
\* its position in the array
NoElem == [kind |-> "none", timestamp |-> <<>>, description |-> NoKey, ocr_text |-> NoKey,
           meta_tags |-> NoKey]
ObjFull == [kind |-> "object", timestamp |-> <<1>>, description |-> "a cat", ocr_text |-> "txt",
            meta_tags |-> "[cat,pet,animal]"]
ObjBare == [kind |-> "object", timestamp |-> <<>>, description |-> NoKey, ocr_text |-> NoKey,
            meta_tags |-> NoKey]
StrElem == [kind |-> "string", timestamp |-> <<>>, description |-> NoKey, ocr_text |-> NoKey,
            meta_tags |-> NoKey]
ResultElems == {ObjFull, ObjBare, StrElem}

\* dict.get(key) and dict.get(key, default)
Get(value, default) == IF value = NoKey THEN default ELSE value

\* a frame dict as passed by the caller: timestamp, frame_number (of a video
\* of one frame per second) and (maybe) image_path
NewFrame(ts, img) ==
    [timestamp |-> ts, frame_number |-> ts, image_path |-> img, description |-> NoKey, ocr_text |-> NoKey,
     meta_tags |-> NoKey, error |-> NoKey, gpt_response |-> NoElem]

Min(a, b) == IF a < b THEN a ELSE b

SeqsUpTo(S, n) == UNION {[1..k -> S] : k \in 0..n}

\* a faulty plan: the custom endpoint's ceiling is not applied
EffectiveBatchSizeUnclamped(custom, bs) == bs

\* ---- planning: lines 1050-1069 ------------------------------------------
EffectiveBatchSize(custom, bs) == IF custom THEN Min(bs, CustomBatchCeiling) ELSE bs

\* frames[i:i + effective_batch_size] for i in range(0, len(frames), effective_batch_size)
\* (frames are named by their 1-based position in the caller's list)
Slice(n, i, B) == [j \in 1..(Min(i + B, n) - i) |-> i + j]

RangeStarts(n, B) == {i \in 0..(n - 1) : i % B = 0}

\* a faulty plan: slices one frame short (frames[i:i + B - 1])
FrameBatchesSkipLast(n, B) ==
    [k \in 1..Cardinality(RangeStarts(n, B)) |-> Slice(n, (k - 1) * B, B - 1)]

FrameBatches(n, B) ==
    [k \in 1..Cardinality(RangeStarts(n, B)) |-> Slice(n, (k - 1) * B, B)]

\* ---- prompt resolution: lines 82-155 ------------------------------------
\* strings are sequences of characters; "R" stands for the title text of the
\* header line after its leading "### "
NL == "\n"
Newlines == {NL, "\r"}
Whitespace == {" ", NL, "\r", "\t"}

\* start_marker (lines 86 and 126), end_marker "\n---\n" (lines 101 and 140),
\* and the next-section pattern "\n### " (lines 106 and 145)
StartMarker == <<"#", "#", "#", " ", "R">>
EndMarker == <<NL, "-", "-", "-", NL>>
NextSection == <<NL, "#", "#", "#", " ">>
Dashes == <<"-", "-", "-">>

\* str.find: the lowest index (from 0) where pat occurs in s, or -1
Find(s, pat) ==
    LET hits == {i \in 0..(Len(s) - Len(pat)) : SubSeq(s, i + 1, i + Len(pat)) = pat}
    IN IF hits = {} THEN -1 ELSE CHOOSE i \in hits : \A j \in hits : i <= j

\* s[i:] and s[:i] for 0 <= i
From(s, i) == SubSeq(s, i + 1, Len(s))
UpTo(s, i) == SubSeq(s, 1, Min(i, Len(s)))

RECURSIVE LStrip(_, _)
LStrip(s, chars) == IF s # <<>> /\ Head(s) \in chars THEN LStrip(Tail(s), chars) ELSE s

RECURSIVE RStrip(_, _)
RStrip(s, chars) ==
    IF s # <<>> /\ s[Len(s)] \in chars THEN RStrip(SubSeq(s, 1, Len(s) - 1), chars) ELSE s

Strip(s) == LStrip(RStrip(s, Whitespace), Whitespace)

EndsWith(s, suffix) == Len(s) >= Len(suffix) /\ From(s, Len(s) - Len(suffix)) = suffix

\* _extract_analysis_rules, lines 82-119
ExtractAnalysisRules(prompt) ==
    LET start_idx == Find(prompt, StartMarker)
        content_start == start_idx + Len(StartMarker)
        remaining == LStrip(From(prompt, content_start), Newlines)
        sep_idx == Find(remaining, EndMarker)
        end_idx == IF sep_idx = -1 THEN Find(remaining, NextSection) ELSE sep_idx
        content == RStrip(remaining, Whitespace)
    IN IF start_idx = -1 THEN <<>>
       ELSE IF end_idx = -1
       THEN IF EndsWith(content, Dashes)
            THEN RStrip(UpTo(content, Len(content) - 3), Whitespace)
            ELSE content
       ELSE Strip(UpTo(remaining, end_idx))

\* a faulty splice: the separator's leading newline is lost
BuildFullPromptOffByOne(full_template, analysis_rules_content) ==
    LET start_idx == Find(full_template, StartMarker)
        content_start == start_idx + Len(StartMarker)
        remaining == LStrip(From(full_template, content_start), Newlines)
        sep_idx == Find(remaining, EndMarker)
        end_idx == IF sep_idx = -1 THEN Find(remaining, NextSection) ELSE sep_idx
        before == UpTo(full_template, content_start)
    IN IF start_idx = -1 THEN full_template
       ELSE IF end_idx = -1
       THEN before \o <<NL, NL>> \o analysis_rules_content \o <<NL>> \o remaining
       ELSE before \o <<NL, NL>> \o analysis_rules_content \o From(remaining, end_idx + 1)

\* a faulty guard: without the header the rules are appended to the template
BuildFullPromptAppends(full_template, analysis_rules_content) ==
    LET start_idx == Find(full_template, StartMarker)
        content_start == start_idx + Len(StartMarker)
        remaining == LStrip(From(full_template, content_start), Newlines)
        sep_idx == Find(remaining, EndMarker)
        end_idx == IF sep_idx = -1 THEN Find(remaining, NextSection) ELSE sep_idx
        before == UpTo(full_template, content_start)
    IN IF start_idx = -1 THEN full_template \o <<NL, NL>> \o analysis_rules_content
       ELSE IF end_idx = -1
       THEN before \o <<NL, NL>> \o analysis_rules_content \o <<NL>> \o remaining
       ELSE before \o <<NL, NL>> \o analysis_rules_content \o From(remaining, end_idx)

\* _build_full_prompt, lines 121-155
BuildFullPrompt(full_template, analysis_rules_content) ==
    LET start_idx == Find(full_template, StartMarker)
        content_start == start_idx + Len(StartMarker)
        remaining == LStrip(From(full_template, content_start), Newlines)
        sep_idx == Find(remaining, EndMarker)
        end_idx == IF sep_idx = -1 THEN Find(remaining, NextSection) ELSE sep_idx
        before == UpTo(full_template, content_start)
    IN IF start_idx = -1 THEN full_template
       ELSE IF end_idx = -1
       THEN before \o <<NL, NL>> \o analysis_rules_content \o <<NL>> \o remaining
       ELSE before \o <<NL, NL>> \o analysis_rules_content \o From(remaining, end_idx)

\* ---- single-frame response parsing: lines 162-225 and 504-698 -----------
\* a response text is a sequence of tokens: single characters, and
\*   "F"  three backticks              "j"  the word json right after them
\*   "p"  a word of prose              "L"  a JSON array (not an object)
\*   "d"  "description": " up to the opening quote of the value
\*   "q"  the closing quote of the description's value
\*   "dn" "description": 42            "ts" "meta_tags": "x" (not a list)
\*   "t3" "meta_tags": [three tags]    "t0" "meta_tags": []
Fence == "F"
JsonTokens == {"d", "q", "dn", "dl", "t3", "t0", "ts"}

\* values of a decoded object's description and meta_tags
\* the description key is missing / its value is the number 42 / the list ["a"]
MissingDesc == <<NoKey>>
NotString == <<"<42>">>
ListDesc == <<"<[a]>">>
\* (a text with three backticks in it, and the same text without them)
DescStrings == {<<>>, <<"a">>, <<"a", Fence, " ", "b">>, <<"a", "b">>}
DescValues == {MissingDesc, NotString, ListDesc} \cup DescStrings
TagValues == {NoKey, "t3", "t0", "ts"}
Objects == [description : DescValues, meta_tags : TagValues]
NoObject == [description |-> MissingDesc, meta_tags |-> NoKey]

\* json.dumps of an object, in the tokens above
DescText(v) ==
    IF v = MissingDesc THEN <<>>
    ELSE IF v = NotString THEN <<"dn">>
    ELSE IF v = ListDesc THEN <<"dl">>
    ELSE <<"d">> \o v \o <<"q">>
TagsText(v) == IF v = NoKey THEN <<>> ELSE <<v>>
ObjText(o) == <<"{">> \o DescText(o.description) \o TagsText(o.meta_tags) \o <<"}">>

\* the messages of json.JSONDecodeError (without the position)
MsgExpecting == "Expecting value"
MsgUnterminated == "Unterminated string starting at"
MsgControl == "Invalid control character at"
MsgExtraData == "Extra data"

\* json's scanner behind the closing brace of the object: only whitespace may follow
AfterObject(r) == IF LStrip(r, Whitespace) = <<>> THEN "" ELSE MsgExtraData
\* ... behind the meta_tags property
AfterTags(r) == IF r # <<>> /\ r[1] = "}" THEN AfterObject(Tail(r)) ELSE MsgExpecting
\* ... behind the value of description
AfterValue(r) ==
    IF r # <<>> /\ r[1] \in {"t3", "t0", "ts"} THEN AfterTags(Tail(r))
    ELSE IF r # <<>> /\ r[1] = "}" THEN AfterObject(Tail(r))
    ELSE MsgExpecting
\* ... inside the description string that opens before r
InString(r) ==
    LET closing == Find(r, <<"q">>)
        body == IF closing = -1 THEN r ELSE UpTo(r, closing)
    IN IF \E i \in 1..Len(body) : body[i] \in Newlines THEN MsgControl
       ELSE IF closing = -1 THEN MsgUnterminated
       ELSE AfterValue(From(r, closing + 1))
\* the message of the first error that json.loads meets in t ("" when there is none)
DecodeErrorMsg(t) ==
    IF t = <<>> THEN MsgExpecting
    ELSE IF t[1] = "L" THEN AfterObject(Tail(t))
    ELSE IF t[1] # "{" \/ Len(t) = 1 THEN MsgExpecting
    ELSE IF t[2] = "d" THEN InString(From(t, 2))
    ELSE IF t[2] \in {"dn", "dl"} THEN AfterValue(From(t, 2))
    ELSE IF t[2] \in {"t3", "t0", "ts"} THEN AfterTags(From(t, 2))
    ELSE IF t[2] = "}" THEN AfterObject(From(t, 2))
    ELSE MsgExpecting

\* json.loads: the object whose text this is, another JSON value, or a
\* json.JSONDecodeError with its message
Decode(text) ==
    LET t == Strip(text) IN
    IF \E o \in Objects : ObjText(o) = t
    THEN [kind |-> "dict", value |-> CHOOSE o \in Objects : ObjText(o) = t, msg |-> ""]
    ELSE IF t = <<"L">> THEN [kind |-> "list", value |-> NoObject, msg |-> ""]
    ELSE [kind |-> "JSONDecodeError", value |-> NoObject, msg |-> DecodeErrorMsg(t)]

\* re.sub(r'```json\s*\n?', '', text), line 166
RECURSIVE SubJsonFences(_)
SubJsonFences(s) ==
    IF s = <<>> THEN <<>>
    ELSE IF Len(s) >= 2 /\ s[1] = Fence /\ s[2] = "j"
    THEN SubJsonFences(LStrip(From(s, 2), Whitespace))
    ELSE <<Head(s)>> \o SubJsonFences(Tail(s))

\* re.sub(r'```\s*\n?', '', text), line 167
RECURSIVE SubFences(_)
SubFences(s) ==
    IF s = <<>> THEN <<>>
    ELSE IF s[1] = Fence THEN SubFences(LStrip(From(s, 1), Whitespace))
    ELSE <<Head(s)>> \o SubFences(Tail(s))

\* _strip_markdown_code_blocks, lines 162-174 (after the two substitutions no
\* fence is left for lines 170-173 to cut)
StripMarkdownCodeBlocks(text) == Strip(SubFences(SubJsonFences(text)))

Count(s, c) == Cardinality({i \in 1..Len(s) : s[i] = c})
\* str.rfind of one character
RFind(s, c) ==
    LET hits == {i \in 0..(Len(s) - 1) : s[i + 1] = c}
    IN IF hits = {} THEN -1 ELSE CHOOSE i \in hits : \A k \in hits : k <= i
StartsWith(s, c) == s # <<>> /\ s[1] = c
EndsWithChar(s, c) == s # <<>> /\ s[Len(s)] = c
\* '"' in json_str or 'timestamp' / 'description' in json_str.lower(), line 197
LooksLikeFields(s) == \E i \in 1..Len(s) : s[i] \in JsonTokens

\* _repair_json, lines 176-225
RepairJson(json_str) ==
    LET s1 == Strip(json_str)
        s2 == LStrip(s1, Whitespace)
        wrapped == <<"{">> \o s2
        s3 == IF StartsWith(s2, "{") THEN s2
              ELSE IF Find(s2, <<"{">>) # -1 THEN From(s2, Find(s2, <<"{">>))
              ELSE IF LooksLikeFields(s2)
              THEN IF Count(wrapped, "{") > Count(wrapped, "}")
                   THEN wrapped \o <<"}">> ELSE wrapped
              ELSE s2
        s4 == IF EndsWithChar(s3, "}") THEN s3
              ELSE IF RFind(s3, "}") # -1 THEN UpTo(s3, RFind(s3, "}") + 1)
              ELSE IF StartsWith(s3, "{") /\ Count(s3, "{") > Count(s3, "}")
              THEN s3 \o <<"}">>
              ELSE s3
        s5 == RStrip(s4, Whitespace)
        s6 == IF StartsWith(s5, "{") THEN s5 ELSE <<"{">> \o s5
        s7 == IF EndsWithChar(s6, "}") THEN s6 ELSE s6 \o <<"}">>
    IN IF s1 = <<>> THEN <<"{", "}">> ELSE Strip(s7)

MsgEmpty == "Empty response from GPT API"
MsgNotDictionary == "JSON response is not a dictionary, got list"
MsgParseFailed == "Failed to parse GPT response as JSON"
MsgNoLen == "object of type 'int' has no len()"
MsgParseFailedPreview == "Failed to parse GPT JSON response: ... Content preview: "
DescPlaceholder == <<"No description provided">>
DescUnparsed == <<"Error: Could not parse GPT response">>
EmptyTags == "t0"

\* lines 557-574: description and meta_tags of a decoded object
Fields(o) ==
    [description |-> IF o.description \in {MissingDesc, <<>>} THEN DescPlaceholder ELSE o.description,
     meta_tags |-> IF Get(o.meta_tags, EmptyTags) \in {"t3", "t0"}
                   THEN Get(o.meta_tags, EmptyTags) ELSE EmptyTags]

\* lines 623-627: the same after the final repair
FinalFields(o) ==
    [description |-> IF o.description = MissingDesc THEN DescUnparsed ELSE o.description,
     meta_tags |-> IF Get(o.meta_tags, EmptyTags) \in {"t3", "t0"}
                   THEN Get(o.meta_tags, EmptyTags) ELSE EmptyTags]

\* the dict analyze_frame returns: lines 648-656 and 692-698; stage is the
\* parse stage that produced it (0: none)
FrameResult(f, stage) ==
    [description |-> f.description, meta_tags |-> f.meta_tags, error |-> NoKey, stage |-> stage,
     preview |-> <<>>]
FrameError(msg) ==
    [description |-> <<"Error analyzing frame: ", msg>>, meta_tags |-> None, error |-> msg,
     stage |-> 0, preview |-> <<>>]

\* a faulty message: the whole content is put into it
ParseErrorFullContent(msg, raw) ==
    IF msg = MsgExpecting THEN FrameError(MsgParseFailed)
    ELSE [description |-> <<"Error analyzing frame: ", MsgParseFailedPreview>> \o raw,
          meta_tags |-> None, error |-> MsgParseFailedPreview, stage |-> 0, preview |-> raw]

\* the ValueError of line 634 through the handler of lines 675-698: the
\* message is replaced when it has the word "Expecting" in it, otherwise it
\* stays, with the decoder's message and the start of the content in it
\* (preview: the part of the content that is in the error text)
ParseErrorResult(msg, raw) ==
    IF msg = MsgExpecting THEN FrameError(MsgParseFailed)
    ELSE [description |-> <<"Error analyzing frame: ", MsgParseFailedPreview>> \o UpTo(raw, PreviewLen),
          meta_tags |-> None, error |-> MsgParseFailedPreview, stage |-> 0,
          preview |-> UpTo(raw, PreviewLen)]

\* lines 524-528: the JSON object embedded in the text, by its outer braces
ExtractObject(s) ==
    LET json_start == Find(s, <<"{">>)
        json_end == RFind(s, "}")
    IN IF json_start # -1 /\ json_end # -1 /\ json_end > json_start
       THEN SubSeq(s, json_start + 1, json_end + 1)
       ELSE s

\* lines 557-603 for the object that stage 1 or 2 decoded: the fields, unless
\* len(description) at line 591 raises for a number, which ends in the
\* handler of lines 675-698
Extracted(o, stage) ==
    IF o.description = NotString THEN FrameError(MsgNoLen) ELSE FrameResult(Fields(o), stage)

\* analyze_frame from the reply on, lines 504-698
AnalyzeContent(raw) ==
    LET content_cleaned == Strip(raw)
        direct == Decode(content_cleaned)
        stripped == Strip(StripMarkdownCodeBlocks(content_cleaned))
        second == Decode(RepairJson(ExtractObject(stripped)))
        final == Decode(RepairJson(raw))
    IN IF content_cleaned = <<>> THEN FrameError(MsgEmpty)
       ELSE IF direct.kind = "dict" THEN Extracted(direct.value, 1)
       ELSE IF direct.kind # "JSONDecodeError" THEN FrameError(MsgNotDictionary)
       ELSE IF second.kind = "dict" THEN Extracted(second.value, 2)
       ELSE IF second.kind # "JSONDecodeError" THEN FrameError(MsgNotDictionary)
       ELSE IF final.kind = "dict" THEN FrameResult(FinalFields(final.value), 3)
       ELSE ParseErrorResult(second.msg, raw)

\* ---- frame.update(...) branches -----------------------------------------
\* error branches (lines 933-940, 949-956, 1030-1037, 1122-1128, 1143-1150,
\* 1164-1170): description = prefix + message, error = message
ErrorUpdate(f, prefix, msg) ==
    [f EXCEPT !.description = prefix \o msg, !.ocr_text = None,
              !.meta_tags = EmptyList, !.error = msg]

\* a faulty handler: only the first frame of the batch is marked
MarkFramesFirstOnly(fr, batch, prefix, msg) ==
    [i \in DOMAIN fr |->
        IF Len(batch) > 0 /\ i = batch[1] THEN ErrorUpdate(fr[i], prefix, msg) ELSE fr[i]]

\* for frame in batch: frame.update({... "error": msg})
MarkFrames(fr, batch, prefix, msg) ==
    [i \in DOMAIN fr |->
        IF \E j \in 1..Len(batch) : batch[j] = i
        THEN ErrorUpdate(fr[i], prefix, msg) ELSE fr[i]]

\* a faulty copy, frame.update(result): the result's own keys go onto the frame
ResultUpdateWhole(f, result) ==
    [f EXCEPT !.timestamp = IF result.timestamp = <<>> THEN @ ELSE result.timestamp[1],
              !.description = Get(result.description, ""),
              !.ocr_text = Get(result.ocr_text, None),
              !.meta_tags = Get(result.meta_tags, EmptyList),
              !.gpt_response = result]

\* lines 902-909: the result's fields are copied onto the frame
ResultUpdate(f, result) ==
    [f EXCEPT !.description = Get(result.description, ""),
              !.ocr_text = Get(result.ocr_text, None),
              !.meta_tags = Get(result.meta_tags, EmptyList),
              !.gpt_response = result]

\* a faulty padding: the frame gets the placeholder fields but no error
MissingUpdateSilent(f) ==
    [f EXCEPT !.description = "No analysis result", !.ocr_text = None,
              !.meta_tags = EmptyList]

\* lines 912-918: no result for this position
MissingUpdate(f) ==
    [f EXCEPT !.description = "No analysis result", !.ocr_text = None,
              !.meta_tags = EmptyList, !.error = MsgMissing]

\* ---- the model's reply to one call --------------------------------------
\* how the awaited call ends: lines 838-853 and _call_custom_gpt 345-387
CallFailures(custom) == {"timeout", "transport"} \cup (IF custom THEN {"oversize"} ELSE {})

FailureMsg(kind) ==
    CASE kind = "oversize" -> MsgOversize
      [] kind = "timeout" -> MsgTimeout
      [] OTHER -> MsgTransport

\* message content of a completed call, as json.loads sees it:
\*   type   "none" (content is None), "invalid" (not JSON), "scalar", "list", "dict"
\*   frames type of the value under the "frames" key of a dict, or "absent"
\*   single the dict has a "timestamp" or "description" key
\*   other  the dict has some other array-valued property
\*   items  the array that the code would pick (frames list, top-level list,
\*          first array-valued property)
Content(t, fk, s, o, it) == [type |-> t, frames |-> fk, single |-> s, other |-> o, items |-> it]

Contents ==
    {Content(t, "absent", FALSE, FALSE, <<>>) : t \in {"none", "invalid", "scalar"}}
    \cup {Content("list", "absent", FALSE, FALSE, it) : it \in SeqsUpTo(ResultElems, 1)}
    \cup {Content("dict", "list", FALSE, FALSE, it) : it \in SeqsUpTo(ResultElems, MaxResults)}
    \cup {Content("dict", "list", TRUE, TRUE, it) : it \in SeqsUpTo(ResultElems, 1)}
    \cup {Content("dict", fk, FALSE, FALSE, <<>>) : fk \in {"null", "object", "string"}}
    \cup {Content("dict", "absent", s, o, it) : s \in BOOLEAN, o \in BOOLEAN,
                                                 it \in SeqsUpTo(ResultElems, 1)}

Parsed(res) == [ok |-> TRUE, results |-> res, prefix |-> "", msg |-> ""]
ParseError(prefix, msg) == [ok |-> FALSE, results |-> <<>>, prefix |-> prefix, msg |-> msg]

PrefixBatch == "Error in batch analysis: "
PrefixParse == "Error parsing batch response: "

\* lines 859-894 with the handlers at 928-941 (json.JSONDecodeError) and 943-957
ExtractResults(c) ==
    IF c.type = "none" THEN ParseError(PrefixBatch, MsgNoneContent)
    ELSE IF c.type = "invalid" THEN ParseError(PrefixParse, MsgJSON)
    ELSE IF c.type = "dict" /\ c.frames # "absent" THEN
        IF c.frames = "list" THEN Parsed(c.items)
        ELSE IF c.frames = "object" THEN Parsed(<<ObjFull>>)
        ELSE IF c.frames = "string" THEN Parsed(<<StrElem>>)
        ELSE Parsed(<<>>)
    ELSE IF c.type = "list" THEN Parsed(c.items)
    ELSE IF c.type = "dict" THEN
        IF c.single THEN Parsed(<<ObjFull>>)
        ELSE IF c.other THEN Parsed(c.items)
        ELSE ParseError(PrefixBatch, MsgNoFrames)
    ELSE ParseError(PrefixBatch, MsgUnexpected)

\* ---- mapping results back to frames: lines 898-919 ----------------------
\* acc = [fr: the frame dicts, analyzed: analyzed_frames, raised: result.get failed]
MapStepDropMissing(acc, f, i, results) ==
    IF i <= Len(results)
    THEN IF results[i].kind # "object"
         THEN [acc EXCEPT !.raised = TRUE]
         ELSE [acc EXCEPT !.fr[f] = ResultUpdate(acc.fr[f], results[i]),
                          !.analyzed = Append(acc.analyzed, f)]
    ELSE [acc EXCEPT !.fr[f] = MissingUpdate(acc.fr[f])]

MapStep(acc, f, i, results) ==
    IF i <= Len(results)
    THEN IF results[i].kind # "object"
         THEN [acc EXCEPT !.raised = TRUE]
         ELSE [acc EXCEPT !.fr[f] = ResultUpdate(acc.fr[f], results[i]),
                          !.analyzed = Append(acc.analyzed, f)]
    ELSE [acc EXCEPT !.fr[f] = MissingUpdate(acc.fr[f]),
                     !.analyzed = Append(acc.analyzed, f)]

RECURSIVE MapLoop(_, _, _, _)
MapLoop(acc, batch, results, i) ==
    IF i > Len(batch) \/ acc.raised THEN acc
    ELSE MapLoop(MapStep(acc, batch[i], i, results), batch, results, i + 1)

\* what analyze_frame_batch does with the content of a completed call: the
\* new frame dicts, the list it returns, and the message of the exception it
\* caught on the way ("ok" when there was none)
InterpretParsed(fr, batch, p) ==
    IF ~p.ok THEN [fr |-> MarkFrames(fr, batch, p.prefix, p.msg), ret |-> batch, err |-> p.msg]
    ELSE LET m == MapLoop([fr |-> fr, analyzed |-> <<>>, raised |-> FALSE], batch, p.results, 1) IN
         IF m.raised
         THEN [fr |-> MarkFrames(m.fr, batch, PrefixBatch, MsgNotDict), ret |-> batch,
               err |-> MsgNotDict]
         ELSE [fr |-> m.fr, ret |-> m.analyzed, err |-> "ok"]

InterpretContent(fr, batch, c) == InterpretParsed(fr, batch, ExtractResults(c))

\* ---- merging: lines 1157-1176 -------------------------------------------
\* analyzed_frames.sort(key=timestamp): stable insertion into an ascending list
RECURSIVE InsertDesc(_, _, _)
\* a faulty sort: descending timestamps
InsertDesc(fr, sorted, f) ==
    IF sorted = <<>> THEN <<f>>
    ELSE IF fr[f].timestamp > fr[Head(sorted)].timestamp THEN <<f>> \o sorted
    ELSE <<Head(sorted)>> \o InsertDesc(fr, Tail(sorted), f)

RECURSIVE Insert(_, _, _)
Insert(fr, sorted, f) ==
    IF sorted = <<>> THEN <<f>>
    ELSE IF fr[f].timestamp < fr[Head(sorted)].timestamp THEN <<f>> \o sorted
    ELSE <<Head(sorted)>> \o Insert(fr, Tail(sorted), f)

RECURSIVE SortByTimestamp(_, _)
SortByTimestamp(fr, list) ==
    IF list = <<>> THEN <<>>
    ELSE Insert(fr, SortByTimestamp(fr, SubSeq(list, 1, Len(list) - 1)), list[Len(list)])

\* a gathered outcome: the list a task returned, or the exception it raised
Returned(list) == [exc |-> FALSE, list |-> list, msg |-> ""]
Raised(msg) == [exc |-> TRUE, list |-> <<>>, msg |-> msg]
NotGathered == [exc |-> FALSE, list |-> <<>>, msg |-> "<pending>"]

\* the flatten loop over batch_results, lines 1158-1173
RECURSIVE Flatten(_, _, _, _)
Flatten(acc, results, bs, k) ==
    IF k > Len(results) THEN acc
    ELSE IF results[k].exc THEN
        LET lo == Len(acc.analyzed) + 1
            hi == Min(Len(acc.analyzed) + bs, Cardinality(DOMAIN acc.fr))
            part == [j \in 1..(IF hi >= lo THEN hi - lo + 1 ELSE 0) |-> lo + j - 1]
        IN Flatten([fr |-> MarkFrames(acc.fr, part, "Error: ", results[k].msg),
                    analyzed |-> acc.analyzed \o part], results, bs, k + 1)
    ELSE Flatten([acc EXCEPT !.analyzed = acc.analyzed \o results[k].list], results, bs, k + 1)

\* ---- state --------------------------------------------------------------
VARIABLES
    settings_custom,  \* settings.GPT_BASE_URL and settings.GPT_BEARER_TOKEN are both set
    use_custom_gpt,   \* self.use_custom_gpt
    client,           \* self.client is not None (system OpenAI key)
    user_key,         \* user_id and db are given and the user's own key decrypts
    frames,           \* the caller's frame dicts, by position; updated in place
    batch_size,       \* argument batch_size
    max_workers,      \* argument max_workers
    pc,               \* "idle", "dispatching" (tasks gathered), "returned"
    frame_batches,    \* list of batches, each a list of frame positions
    semaphore,        \* value of the asyncio.Semaphore
    task,             \* per batch: "pending", "preparing", "calling", "done"
    fallback,         \* per batch: 0 = whole-batch call, i >= 1 = i-th frame of the 413 fallback
    individual,       \* per batch: individual_results of the 413 fallback
    batch_results,    \* per batch: gathered outcome
    analyzed_frames,  \* the returned list
    batch_calls,      \* history: number of whole-batch calls made per batch
    single_calls,     \* history: number of fallback single-frame calls made per frame
    outcome,          \* history: how the whole-batch call of each batch ended: "none"
                      \* (no call yet), "ok", or the message of the failure
    first_done,       \* history: the batch whose task finished first (0: none yet)
    last_reply,       \* history: batch and result array of the reply parsed by the latest step
    sent,             \* history: per frame, its image was part of a call
    transports,       \* history: the transports that the job's calls went to
    deviations,       \* history: calls so far that failed or strayed from the schema
    prompt_template,  \* self.prompt_template, a string (sequence of characters)
    rules,            \* the analysis_rules_content passed to _build_full_prompt
    full_prompt,      \* what _build_full_prompt returned
    extracted,        \* what _extract_analysis_rules returned for full_prompt
    ppc,              \* prompt resolution: "init", "built", "extracted"
    content,          \* analyze_frame: the message content of the model's reply
    wrap,             \* how that content was made: "plain", "fenced", ...
    obj,              \* the JSON object inside it
    result,           \* the dict analyze_frame returned
    apc,              \* analyze_frame: "init", "done"
    resolved,         \* the text get_prompt_template returned (sequence of tokens)
    custom_prompt,    \* user_id, db given and that text differs from self.prompt_template
    prompt_text,      \* the prompt text of the request that was made, if any
    format_error,     \* the error field of the result that came back without a call
    raised,           \* an exception left the operation
    rpc,              \* building the request: "init", "frame", "batch"
    json_response,    \* analyze_frame_batch: the decoded content of a reply
    selected,         \* the result array selected from it (results), or the parse error
    jpc,              \* interpreting that reply: "init", "done"
    cap_opened,       \* extract_frames: cap.isOpened()
    fps_halves,       \* ... the video's frame rate, in half frames per second
    video_len,        \* ... the number of frames that cap.read() delivers
    frame_count,      \* ... frame_count
    second,           \* ... second
    extracted_frames, \* ... frames, the list that is returned
    vpc,              \* ... "idle", "init", "reading", "returned", "raised"
    db_dialect,       \* create_upload: the database named by settings.DATABASE_URL
    video_uploads,    \* ... the committed rows of the table video_uploads
    upc,              \* ... per call: "generate", "commit", "refresh", "returned", "raised"
    retry_count,      \* ... per call: retry_count
    video_file_number, \* ... per call: the number generated last
    generated,        \* history: per call, how many numbers it generated
    db_errors         \* history: database calls that failed for another reason

vars == <<settings_custom, use_custom_gpt, client, user_key, frames, batch_size,
          max_workers, pc, frame_batches, semaphore, task, fallback, individual,
          batch_results, analyzed_frames, batch_calls, single_calls, outcome,
          first_done, last_reply, sent, transports, deviations,
          prompt_template, rules, full_prompt, extracted, ppc,
          content, wrap, obj, result, apc,
          resolved, custom_prompt, prompt_text, format_error, raised, rpc,
          json_response, selected, jpc,
          cap_opened, fps_halves, video_len, frame_count, second, extracted_frames, vpc,
          db_dialect, video_uploads, upc, retry_count, video_file_number, generated, db_errors>>

config == <<settings_custom, use_custom_gpt, client, user_key>>
args == <<batch_size, max_workers>>
history == <<batch_calls, single_calls, outcome, sent, transports, deviations>>
\* state of the service's other operations, which a job does not touch
others == <<prompt_template, rules, full_prompt, extracted, ppc,
           content, wrap, obj, result, apc,
           resolved, custom_prompt, prompt_text, format_error, raised, rpc,
           json_response, selected, jpc,
           cap_opened, fps_halves, video_len, frame_count, second, extracted_frames, vpc,
           db_dialect, video_uploads, upc, retry_count, video_file_number, generated, db_errors>>

NoReply == [batch |-> 0, list |-> <<>>, results |-> <<>>]

NumFrames == Cardinality(DOMAIN frames)
Batches == DOMAIN frame_batches

\* GPTService.__init__ (lines 19-27) followed by the caller's arguments
Constructed ==
    /\ settings_custom \in BOOLEAN
    /\ use_custom_gpt = settings_custom
    /\ client \in BOOLEAN
    /\ user_key \in BOOLEAN
    /\ user_key => ~client /\ ~settings_custom

\* no job has run yet
Idle ==
    /\ pc = "idle"
    /\ frame_batches = <<>>
    /\ semaphore = 0
    /\ task = <<>>
    /\ fallback = <<>>
    /\ individual = <<>>
    /\ batch_results = <<>>
    /\ analyzed_frames = <<>>
    /\ batch_calls = <<>>
    /\ single_calls = [i \in DOMAIN frames |-> 0]
    /\ outcome = <<>>
    /\ first_done = 0
    /\ last_reply = NoReply
    /\ sent = [i \in DOMAIN frames |-> FALSE]
    /\ transports = {}
    /\ deviations = 0

NotBuilt == <<"?">>

\* no prompt has been resolved; the template is the built-in default of
\* lines 66-71 (no ANALYSIS RULES header), cut to its last character
PromptIdle ==
    /\ prompt_template = <<"s">>
    /\ rules = <<>>
    /\ full_prompt = NotBuilt
    /\ extracted = NotBuilt
    /\ ppc = "init"

NoResult == [description |-> <<>>, meta_tags |-> NoKey, error |-> NoKey, stage |-> 0,
             preview |-> <<>>]

\* no single frame is being analyzed
FrameIdle ==
    /\ content = <<>>
    /\ wrap = "none"
    /\ obj = NoObject
    /\ result = NoResult
    /\ apc = "init"

\* no request has been built, none is being built
NotSent == <<"<not sent>">>
RequestIdle ==
    /\ resolved = <<>>
    /\ custom_prompt = FALSE
    /\ prompt_text = NotSent
    /\ format_error = NoKey
    /\ raised = FALSE
    /\ rpc = "idle"

\* no reply is being interpreted outside a job
NotDecoded == [type |-> "none", props |-> <<>>, items |-> <<>>]
ReplyIdle ==
    /\ json_response = NotDecoded
    /\ selected = Parsed(<<>>)
    /\ jpc = "idle"

\* no video is being read
VideoIdle ==
    /\ cap_opened = FALSE
    /\ fps_halves = 2
    /\ video_len = 0
    /\ frame_count = 0
    /\ second = 0
    /\ extracted_frames = <<>>
    /\ vpc = "idle"

\* no upload is being created
UploadIdle ==
    /\ db_dialect = "mysql"
    /\ video_uploads = <<>>
    /\ upc = <<>>
    /\ retry_count = <<>>
    /\ video_file_number = <<>>
    /\ generated = <<>>
    /\ db_errors = 0

\* the caller's frames have timestamps 0, 1, 2, ... ; up to MaxNoImage of them
\* come without an image path
Init ==
    /\ Constructed
    /\ \E n \in 0..MaxFrames : \E img \in [1..n -> BOOLEAN] :
          /\ Cardinality({i \in 1..n : ~img[i]}) <= MaxNoImage
          /\ frames = [i \in 1..n |-> NewFrame(i - 1, img[i])]
    /\ batch_size \in 1..MaxBatchSize
    /\ max_workers \in 1..MaxWorkers
    /\ Idle
    /\ PromptIdle
    /\ FrameIdle
    /\ RequestIdle /\ ReplyIdle /\ VideoIdle /\ UploadIdle

\* longer frame lists and larger batch sizes, for the planning step alone
InitPlan ==
    /\ Constructed
    /\ \E n \in 0..MaxPlanFrames : frames = [i \in 1..n |-> NewFrame(i - 1, TRUE)]
    /\ batch_size \in 1..MaxPlanBatchSize
    /\ max_workers = 1
    /\ Idle
    /\ PromptIdle
    /\ FrameIdle
    /\ RequestIdle /\ ReplyIdle /\ VideoIdle /\ UploadIdle

\* ---- environment --------------------------------------------------------
\* the process-wide settings are changed after the service was constructed
UpdateSettings ==
    /\ pc = "idle"
    /\ settings_custom' = ~settings_custom
    /\ UNCHANGED <<use_custom_gpt, client, user_key, frames, args, others, pc, frame_batches,
                   semaphore, task, fallback, individual, batch_results,
                   analyzed_frames, history, first_done, last_reply>>

\* the user's stored key is removed (Credential Resolver's database) while a
\* job that reads it (OpenAI backend) is running
RevokeUserKey ==
    /\ user_key
    /\ pc = "dispatching"
    /\ ~use_custom_gpt
    /\ user_key' = FALSE
    /\ UNCHANGED <<settings_custom, use_custom_gpt, client, frames, args, others, pc,
                   frame_batches, semaphore, task, fallback, individual,
                   batch_results, analyzed_frames, history, first_done, last_reply>>

\* ---- batch_analyze_frames up to the gather: lines 988-1155 --------------
\* _get_openai_client, lines 275-328
OpenAIClient(custom) == ~custom /\ (user_key \/ client)

\* a faulty re-check: the service follows the settings both ways
RecheckedFollowsSettings == settings_custom

\* lines 989-1001: the runtime re-check of the settings
Rechecked == use_custom_gpt \/ settings_custom

\* a faulty early return: the frames are returned untouched
MarkAllNone(fr, msg) == fr

\* lines 1030-1037
MarkAll(fr, msg) == [i \in DOMAIN fr |-> ErrorUpdate(fr[i], "", msg)]

StartJob ==
    /\ pc = "idle"
    /\ use_custom_gpt' = Rechecked
    /\ IF ~Rechecked /\ ~OpenAIClient(Rechecked)
       THEN \* lines 1018-1038: no backend, the frames come back marked
            /\ frames' = MarkAll(frames, MsgNoKey)
            /\ analyzed_frames' = [i \in 1..NumFrames |-> i]
            /\ pc' = "returned"
            /\ UNCHANGED <<frame_batches, semaphore, task, fallback, individual,
                           batch_results, batch_calls, outcome>>
       ELSE IF NumFrames = 0
       THEN \* lines 1047-1048
            /\ analyzed_frames' = <<>>
            /\ pc' = "returned"
            /\ UNCHANGED <<frames, frame_batches, semaphore, task, fallback, individual,
                           batch_results, batch_calls, outcome>>
       ELSE LET fb == FrameBatches(NumFrames, EffectiveBatchSize(Rechecked, batch_size)) IN
            /\ frame_batches' = fb
            /\ semaphore' = max_workers
            /\ task' = [b \in DOMAIN fb |-> "pending"]
            /\ fallback' = [b \in DOMAIN fb |-> 0]
            /\ individual' = [b \in DOMAIN fb |-> <<>>]
            /\ batch_results' = [b \in DOMAIN fb |-> NotGathered]
            /\ batch_calls' = [b \in DOMAIN fb |-> 0]
            /\ outcome' = [b \in DOMAIN fb |-> "none"]
            /\ pc' = "dispatching"
            /\ UNCHANGED <<frames, analyzed_frames>>
    /\ UNCHANGED <<settings_custom, client, user_key, args, others, single_calls, first_done,
                   last_reply, sent, transports, deviations>>

\* ---- analyze_batch_with_semaphore: lines 1080-1151 ----------------------
\* the list that the current analyze_frame_batch call of task b works on: the
\* whole batch (line 1090) or one frame of it (line 1115)
Current(b) ==
    IF fallback[b] = 0 THEN frame_batches[b] ELSE <<frame_batches[b][fallback[b]]>>

\* line 1101, over the messages of this model
Is413(msg) == msg = MsgOversize

\* a faulty dispatch: a batch starts only after all earlier batches are done
CanAcquireInOrder(b) ==
    /\ task[b] = "pending"
    /\ semaphore > 0
    /\ \A a \in Batches : a < b => task[a] = "done"

\* async with semaphore (line 1081): the tasks are created in batch order
\* (line 1154) and asyncio serves the semaphore's waiters first come, first served
CanAcquire(b) ==
    /\ task[b] = "pending"
    /\ semaphore > 0
    /\ \A a \in Batches : a < b => task[a] # "pending"

\* a faulty release: the permit is kept when the batch failed
ReleaseUnlessError(sem, ok) == IF ok THEN sem + 1 ELSE sem

\* leaving "async with semaphore", whether the batch went well (ok) or not
Release(sem, ok) == sem + 1

\* the new values of a task's variables
Step(fr, st, fbk, ind, res, sem) ==
    [fr |-> fr, st |-> st, fbk |-> fbk, ind |-> ind, res |-> res, sem |-> sem]

\* return at line 1097, 1130 or 1151
Finish(b, fr, ind, list, ok) ==
    Step(fr, "done", fallback[b], ind, Returned(list), Release(semaphore, ok))

\* lines 1113-1130: next frame of the fallback loop, or the end of it
NextFallback(b, fr, ind, ok) ==
    IF fallback[b] < Len(frame_batches[b])
    THEN Step(fr, "preparing", fallback[b] + 1, ind, batch_results[b], semaphore)
    ELSE Finish(b, fr, ind, ind, ok)

\* analyze_frame_batch returned the list ret
OnReturn(b, fr, ret, ok) ==
    IF fallback[b] = 0
    THEN Finish(b, fr, individual[b], ret, ok)
    ELSE NextFallback(b, fr, individual[b] \o ret, ok)

\* analyze_frame_batch raised: the handlers at lines 1098-1151 and 1118-1129
OnRaise(b, fr, msg) ==
    IF fallback[b] = 0
    THEN IF Is413(msg)
         THEN Step(fr, "preparing", 1, <<>>, batch_results[b], semaphore)
         ELSE Finish(b, MarkFrames(fr, frame_batches[b], "Error analyzing batch: ", msg),
                     individual[b], frame_batches[b], FALSE)
    ELSE NextFallback(b, MarkFrames(fr, Current(b), "Error analyzing frame: ", msg),
                      individual[b] \o Current(b), FALSE)

Apply(b, s) ==
    /\ frames' = s.fr
    /\ task' = [task EXCEPT ![b] = s.st]
    /\ fallback' = [fallback EXCEPT ![b] = s.fbk]
    /\ individual' = [individual EXCEPT ![b] = s.ind]
    /\ batch_results' = [batch_results EXCEPT ![b] = s.res]
    /\ semaphore' = s.sem
    /\ first_done' = IF first_done = 0 /\ s.st = "done" THEN b ELSE first_done

\* the task enters "async with semaphore" and calls analyze_frame_batch(batch)
Acquire(b) ==
    /\ pc = "dispatching"
    /\ CanAcquire(b)
    /\ semaphore' = semaphore - 1
    /\ task' = [task EXCEPT ![b] = "preparing"]
    /\ last_reply' = NoReply
    /\ UNCHANGED <<config, frames, args, others, pc, frame_batches, fallback, individual,
                   batch_results, analyzed_frames, history, first_done>>

\* a faulty choice: a configured system key wins over the custom endpoint
TransportPreferClient(custom) == IF custom /\ ~client THEN "custom" ELSE "openai"

\* ---- analyze_frame_batch up to the call: lines 717-837 ------------------
\* the frame has an image_path or frame_path (line 733)
\* lines 829-849: _call_custom_gpt or client.chat.completions.create
Transport(custom) == IF custom THEN "custom" ELSE "openai"

WithImage(fr, list) == SelectSeq(list, LAMBDA f : fr[f].image_path)

Prepare(b) ==
    /\ pc = "dispatching"
    /\ task[b] = "preparing"
    /\ LET list == Current(b)
           images == WithImage(frames, list)
       IN IF ~use_custom_gpt /\ ~OpenAIClient(use_custom_gpt)
          THEN \* line 722, outside the try
               /\ Apply(b, OnRaise(b, frames, MsgNoKey))
               /\ UNCHANGED history
          ELSE IF images = <<>>
          THEN \* lines 747-749: nothing to send
               /\ Apply(b, OnReturn(b, frames, list, TRUE))
               /\ UNCHANGED history
          ELSE \/ \* an image file cannot be read (line 737), caught at 943
                  /\ deviations < MaxDeviations
                  /\ deviations' = deviations + 1
                  /\ Apply(b, OnReturn(b, MarkFrames(frames, list, PrefixBatch, MsgIO), list, FALSE))
                  /\ UNCHANGED <<batch_calls, single_calls, outcome, sent, transports>>
               \/ \* the request is sent (lines 838-849)
                  /\ task' = [task EXCEPT ![b] = "calling"]
                  /\ IF fallback[b] = 0
                     THEN /\ batch_calls' = [batch_calls EXCEPT ![b] = @ + 1]
                          /\ UNCHANGED single_calls
                     ELSE /\ single_calls' = [single_calls EXCEPT ![list[1]] = @ + 1]
                          /\ UNCHANGED batch_calls
                  /\ sent' = [i \in DOMAIN sent |->
                                sent[i] \/ \E j \in 1..Len(images) : images[j] = i]
                  /\ transports' = transports \cup {Transport(use_custom_gpt)}
                  /\ UNCHANGED <<frames, fallback, individual, batch_results, semaphore,
                                 outcome, deviations, first_done>>
    /\ last_reply' = NoReply
    /\ UNCHANGED <<config, args, others, pc, frame_batches, analyzed_frames>>

\* ---- analyze_frame_batch from the reply on: lines 838-957 ---------------
\* the reply the prompt asks for: {"frames": [...]} with one full object per frame
Requested(c, list) ==
    /\ c.type = "dict" /\ c.frames = "list" /\ ~c.single
    /\ c.items = [i \in 1..Len(list) |-> ObjFull]

\* a faulty handler: the exception of the call leaves analyze_frame_batch
CallFailedPropagates(b, fr, msg) == OnRaise(b, fr, msg)

\* lines 943-957: analyze_frame_batch catches what the call raised, marks the
\* frames of its list and returns them
CallFailed(b, fr, msg) ==
    OnReturn(b, MarkFrames(fr, Current(b), PrefixBatch, msg), Current(b), FALSE)

Respond(b) ==
    /\ pc = "dispatching"
    /\ task[b] = "calling"
    /\ \/ \E kind \in CallFailures(use_custom_gpt) :
            \* the call raised; caught at line 943
            /\ deviations < MaxDeviations
            /\ deviations' = deviations + 1
            /\ Apply(b, CallFailed(b, frames, FailureMsg(kind)))
            /\ IF fallback[b] = 0
               THEN outcome' = [outcome EXCEPT ![b] = FailureMsg(kind)]
               ELSE UNCHANGED outcome
            /\ last_reply' = NoReply
       \/ \E c \in Contents :
            LET r == InterpretContent(frames, Current(b), c) IN
            /\ Requested(c, Current(b)) \/ deviations < MaxDeviations
            /\ deviations' = IF Requested(c, Current(b)) THEN deviations ELSE deviations + 1
            /\ Apply(b, OnReturn(b, r.fr, r.ret, r.err = "ok"))
            /\ IF fallback[b] = 0
               THEN outcome' = [outcome EXCEPT ![b] = r.err]
               ELSE UNCHANGED outcome
            /\ last_reply' = IF ExtractResults(c).ok
                              THEN [batch |-> b, list |-> Current(b),
                                    results |-> ExtractResults(c).results]
                              ELSE NoReply
    /\ UNCHANGED <<config, args, others, pc, frame_batches, analyzed_frames, batch_calls,
                   single_calls, sent, transports>>

\* ---- after the gather: lines 1155-1184 ----------------------------------
Merge ==
    /\ pc = "dispatching"
    /\ \A b \in Batches : task[b] = "done"
    /\ LET m == Flatten([fr |-> frames, analyzed |-> <<>>], batch_results, batch_size, 1) IN
       /\ frames' = m.fr
       /\ analyzed_frames' = SortByTimestamp(m.fr, m.analyzed)
    /\ pc' = "returned"
    /\ last_reply' = NoReply
    /\ UNCHANGED <<config, args, others, frame_batches, semaphore, task, fallback, individual,
                   batch_results, history, first_done>>

Next ==
    \/ UpdateSettings
    \/ RevokeUserKey
    \/ StartJob
    \/ \E b \in Batches : Acquire(b)
    \/ \E b \in Batches : Prepare(b)
    \/ \E b \in Batches : Respond(b)
    \/ Merge

Spec == Init /\ [][Next]_vars

\* planning alone, on larger inputs
PlanSpec == InitPlan /\ [][StartJob]_vars

\* the event loop runs every task that is ready, and every awaited call ends
\* (reply, error, or the 300 s timeout of lines 838-853)
Fairness ==
    /\ WF_vars(StartJob)
    /\ \A b \in 1..MaxFrames : WF_vars(b \in Batches /\ Acquire(b))
    /\ \A b \in 1..MaxFrames : WF_vars(b \in Batches /\ Prepare(b))
    /\ \A b \in 1..MaxFrames : WF_vars(b \in Batches /\ Respond(b))
    /\ WF_vars(Merge)

FairSpec == Init /\ [][Next]_vars /\ Fairness

\* ---- properties ---------------------------------------------------------
FramesOf(b) == {frame_batches[b][j] : j \in 1..Len(frame_batches[b])}

Occurrences(list, f) == Cardinality({k \in 1..Len(list) : list[k] = f})

RECURSIVE Concat(_)
Concat(lists) == IF lists = <<>> THEN <<>> ELSE Head(lists) \o Concat(Tail(lists))

\* analyze_frame_batch calls in progress, whole-batch and fallback alike: the
\* wrapper makes each of them inside "async with semaphore" (lines 1082-1130)
InFlight == {b \in Batches : task[b] \in {"preparing", "calling"}}
\* those of them whose request is out at the model
Requesting == {b \in Batches : task[b] = "calling"}
Pending == {b \in Batches : task[b] = "pending"}
FirstPending == CHOOSE b \in Pending : \A a \in Pending : b <= a

\* the job found no backend at lines 1018-1038 (nothing else returns frames
\* without having planned a batch)
NoBackendJob ==
    /\ pc = "returned"
    /\ ~use_custom_gpt /\ ~client /\ ~user_key
    /\ frame_batches = <<>>

\* C1: whatever the per-batch outcomes were, the returned list holds every
\* input frame exactly once, so its length is the number of input frames.
C1_EveryFrameOnce ==
    pc = "returned" =>
        /\ Len(analyzed_frames) = NumFrames
        /\ \A f \in DOMAIN frames : Occurrences(analyzed_frames, f) = 1

\* a job of two batches returned: the first batch was rejected as too large,
\* the second was analyzed
C1_Witness ==
    /\ pc = "returned"
    /\ Len(frame_batches) = 2
    /\ Len(analyzed_frames) = 2
    /\ outcome[1] = MsgOversize /\ frames[1].error = MsgOversize
    /\ outcome[2] = "ok" /\ frames[2].error = NoKey

\* C2: the returned list is in ascending timestamp order, whichever batch
\* task finished first.
C2_AscendingTimestamps ==
    pc = "returned" =>
        \A k \in 1..(Len(analyzed_frames) - 1) :
            frames[analyzed_frames[k]].timestamp < frames[analyzed_frames[k + 1]].timestamp

\* the second batch finished before the first one, and the job returned
C2_Witness ==
    /\ pc = "returned"
    /\ first_done = 2
    /\ Len(analyzed_frames) = 2
    /\ frames[analyzed_frames[1]].timestamp < frames[analyzed_frames[2]].timestamp

\* C3: planning N frames with effective batch size B gives ceil(N/B) batches,
\* each of 1..B frames, whose concatenation is the frame list in its order.
C3_Partition ==
    LET B == EffectiveBatchSize(use_custom_gpt, batch_size) IN
    /\ pc = "dispatching" =>
        /\ Len(frame_batches) = (NumFrames + B - 1) \div B
        /\ \A b \in Batches : Len(frame_batches[b]) \in 1..B
        /\ Concat(frame_batches) = [i \in 1..NumFrames |-> i]
    /\ pc = "returned" /\ NumFrames = 0 => frame_batches = <<>>

\* seven frames in batches of three: sizes 3, 3, 1
C3_Witness ==
    /\ pc = "dispatching"
    /\ NumFrames = 7
    /\ Len(frame_batches) = 3
    /\ Len(frame_batches[3]) = 1

\* C4: after a whole-batch call was rejected as too large, every frame of the
\* batch has had its own single-frame call, the batch has one result per
\* frame, and the whole batch was sent only once.
C4_OversizeFallsBackToSingleFrames ==
    \A b \in Batches :
        task[b] = "done" /\ outcome[b] = MsgOversize =>
            /\ \A f \in FramesOf(b) : single_calls[f] = 1
            /\ Len(batch_results[b].list) = Len(frame_batches[b])
            /\ batch_calls[b] = 1

\* C5: a result array (of JSON objects) shorter than the batch fills frames
\* 0..m-1 from results 0..m-1 in order and marks frames m..k-1 as missing a
\* result; the batch comes back with all its k frames.
C5_ShortReplyPadded ==
    LET list == last_reply.list
        results == last_reply.results
    IN /\ last_reply.batch # 0
       /\ Len(results) < Len(list)
       /\ \A i \in 1..Len(results) : results[i].kind = "object"
       => /\ batch_results[last_reply.batch].list = list
          /\ \A i \in 1..Len(list) :
               IF i <= Len(results)
               THEN /\ frames[list[i]].gpt_response = results[i]
                    /\ frames[list[i]].description = Get(results[i].description, "")
                    /\ frames[list[i]].ocr_text = Get(results[i].ocr_text, None)
                    /\ frames[list[i]].meta_tags = Get(results[i].meta_tags, EmptyList)
                    /\ frames[list[i]].error = NoKey
               ELSE frames[list[i]].error = MsgMissing

\* a two-frame batch got one result object
C5_Witness ==
    /\ last_reply.batch # 0
    /\ Len(last_reply.list) = 2
    /\ last_reply.results = <<ObjFull>>
    /\ frames[last_reply.list[1]].gpt_response = ObjFull
    /\ frames[last_reply.list[2]].error = MsgMissing

\* C6: at most max_workers calls are in flight, and whenever fewer are and
\* batches are pending, the next pending batch can start, whether or not the
\* batches before it have finished.
C6_BoundedAndNonBlocking ==
    pc = "dispatching" =>
        /\ Cardinality(Requesting) <= Cardinality(InFlight)
        /\ Cardinality(InFlight) <= max_workers
        /\ semaphore = max_workers - Cardinality(InFlight)
        /\ Cardinality(InFlight) < max_workers /\ Pending # {} => ENABLED Acquire(FirstPending)

\* the second batch is about to start while the first one's call is in flight
C6_Witness ==
    /\ pc = "dispatching"
    /\ max_workers = 2
    /\ task[1] = "calling"
    /\ Pending = {2}
    /\ ENABLED Acquire(2)

\* C7: every batch of a dispatched job reaches a terminal outcome, whatever
\* happened to the other batches, and the job returns only after all of them.
C7_AllBatchesComplete ==
    /\ (pc = "dispatching") ~> (pc = "returned" /\ \A b \in Batches : task[b] = "done")
    /\ [][pc = "dispatching" /\ pc' = "returned" => \A b \in Batches : task[b] = "done"]_vars

\* the first batch has failed and the second one has finished after it
C7_Witness ==
    /\ pc = "returned"
    /\ Len(frame_batches) = 2
    /\ max_workers = 1
    /\ outcome[1] = MsgTransport
    /\ first_done = 1
    /\ task[2] = "done" /\ outcome[2] = "ok"

\* C8: a failure of a batch's call other than an oversize rejection puts its
\* message on every frame of that batch and on no frame of a batch that did
\* not fail that way, after exactly one call for the batch.
C8_FailureMarksOwnBatchOnly ==
    \A b \in Batches :
        task[b] = "done" /\ outcome[b] \notin {"none", "ok", MsgOversize} =>
            /\ \A f \in FramesOf(b) : frames[f].error = outcome[b]
            /\ batch_calls[b] = 1
            /\ \A f \in FramesOf(b) : single_calls[f] = 0
            /\ \A a \in Batches \ {b} : \A f \in FramesOf(a) :
                   frames[f].error = outcome[b] => outcome[a] = outcome[b]

\* one batch timed out, the other was analyzed
C8_Witness ==
    /\ Len(frame_batches) = 2
    /\ task[1] = "done" /\ outcome[1] = MsgTimeout /\ frames[1].error = MsgTimeout
    /\ task[2] = "done" /\ outcome[2] = "ok" /\ frames[2].error = NoKey

C10_NoErrorMeansAnalyzed ==
    pc = "returned" =>
        \A f \in DOMAIN frames :
            frames[f].error = NoKey =>
                /\ sent[f]
                /\ frames[f].gpt_response.kind = "object"

\* ceil(n / d)
CeilDiv(n, d) == (n + d - 1) \div d

\* C11: on the custom endpoint the job has ceil(N / min(batch_size, 2))
\* batches and none of them holds more than 2 frames; on the OpenAI client
\* the batches are cut at batch_size.
C11_CustomBatchesAtMostTwo ==
    pc = "dispatching" =>
        IF use_custom_gpt
        THEN /\ \A b \in Batches : Len(frame_batches[b]) <= 2
             /\ Len(frame_batches) = CeilDiv(NumFrames, IF batch_size < 2 THEN batch_size ELSE 2)
        ELSE /\ Len(frame_batches) = CeilDiv(NumFrames, batch_size)
             /\ \A b \in Batches : Len(frame_batches[b]) <= batch_size
             /\ Len(frame_batches[1]) = Min(NumFrames, batch_size)

\* seven frames, batch_size 4, custom endpoint: batches of 2, 2, 2, 1
C11_Witness ==
    /\ pc = "dispatching"
    /\ use_custom_gpt
    /\ batch_size = 4
    /\ NumFrames = 7
    /\ Len(frame_batches) = 4
    /\ Len(frame_batches[1]) = 2

CallsMade == \E b \in Batches : batch_calls[b] > 0

\* C12: all model calls of a job go to one transport: the custom endpoint
\* when the service is on the custom backend, also with an OpenAI key (system
\* or per-user) configured, and the OpenAI client otherwise.
C12_OneTransportPerJob ==
    /\ Cardinality(transports) <= 1
    /\ CallsMade => transports = {IF use_custom_gpt THEN "custom" ELSE "openai"}
    /\ ~CallsMade => transports = {}

\* both batches of a job went to the custom endpoint although the system's
\* OpenAI key is configured
C12_Witness ==
    /\ pc = "returned"
    /\ use_custom_gpt /\ client
    /\ Len(frame_batches) = 2
    /\ batch_calls[1] = 1 /\ batch_calls[2] = 1
    /\ transports = {"custom"}

\* ---- prompt resolution as a state machine -------------------------------
\* templates as _load_prompt_template returns them: the file's text, stripped
\* (line 55), with or without the header, with each kind of end of the region
Intros == {<<>>, <<"I", NL>>}
Headers == {<<>>, StartMarker}
Gaps == {<<>>, <<NL>>, <<NL, NL>>}
Defaults == {<<>>, <<"d">>, <<"d", NL, "d">>}
Tails ==
    {<<>>, EndMarker \o <<"F">>, NextSection \o <<"F">>, <<NL>> \o Dashes,
     NextSection \o <<"F">> \o EndMarker \o <<"G">>, <<" ", NL>>}
Templates ==
    {Strip(i \o h \o g \o d \o t) : i \in Intros, h \in Headers, g \in Gaps,
                                    d \in Defaults, t \in Tails}

\* custom rules as get_prompt_template passes them on: any non-empty string
\* (line 259); all short ones, and two that contain an end sentinel
RuleChars == {"x", " ", NL}
RulesWithSentinel == {<<"x">> \o EndMarker \o <<"y">>, <<"x">> \o NextSection \o <<"y">>}
Rules == (SeqsUpTo(RuleChars, MaxRulesLen) \ {<<>>}) \cup RulesWithSentinel

\* a service that has no job to run
NoJob ==
    /\ settings_custom = FALSE
    /\ use_custom_gpt = FALSE
    /\ client = TRUE
    /\ user_key = FALSE
    /\ frames = <<>>
    /\ batch_size = 1
    /\ max_workers = 1
    /\ Idle

InitPrompt ==
    /\ NoJob
    /\ prompt_template \in Templates
    /\ rules \in Rules
    /\ full_prompt = NotBuilt
    /\ extracted = NotBuilt
    /\ ppc = "init"
    /\ FrameIdle /\ RequestIdle /\ ReplyIdle /\ VideoIdle /\ UploadIdle

frame_call == <<content, wrap, obj, result, apc>>
request == <<resolved, custom_prompt, prompt_text, format_error, raised, rpc>>
reply == <<json_response, selected, jpc>>
video == <<cap_opened, fps_halves, video_len, frame_count, second, extracted_frames, vpc>>
upload == <<db_dialect, video_uploads, upc, retry_count, video_file_number, generated, db_errors>>
prompt == <<prompt_template, rules, full_prompt, extracted, ppc>>
job == <<config, frames, args, pc, frame_batches, semaphore, task, fallback, individual,
         batch_results, analyzed_frames, history, first_done, last_reply>>

\* get_prompt_template, line 262
BuildPrompt ==
    /\ ppc = "init"
    /\ full_prompt' = BuildFullPrompt(prompt_template, rules)
    /\ ppc' = "built"
    /\ UNCHANGED <<job, prompt_template, rules, extracted, frame_call, request, reply, video, upload>>

\* the rules shown for editing are read back from the resolved prompt
ExtractRules ==
    /\ ppc = "built"
    /\ extracted' = ExtractAnalysisRules(full_prompt)
    /\ ppc' = "extracted"
    /\ UNCHANGED <<job, prompt_template, rules, full_prompt, frame_call, request, reply, video, upload>>

PromptSpec == InitPrompt /\ [][BuildPrompt \/ ExtractRules]_vars

\* the fixed parts of a prompt that has the header: the text up to the end of
\* the header, and the text from the end sentinel on (the first separator
\* line after the header; failing that the next section header; failing that
\* the end of the text)
HasHeader(t) == Find(t, StartMarker) # -1
HeaderEnd(t) == Find(t, StartMarker) + Len(StartMarker)
SentinelIdx(rest) ==
    IF Find(rest, EndMarker) # -1 THEN Find(rest, EndMarker)
    ELSE IF Find(rest, NextSection) # -1 THEN Find(rest, NextSection)
    ELSE Len(rest)
FixedPrefix(t) == UpTo(t, HeaderEnd(t))
FixedSuffix(t) == From(From(t, HeaderEnd(t)), SentinelIdx(From(t, HeaderEnd(t))))
HasSentinel(s) == Find(s, EndMarker) # -1 \/ Find(s, NextSection) # -1

\* C13: the resolved prompt starts with the template's text up to the end of
\* the header and ends with the template's text from its end sentinel on,
\* whatever the custom rules are and whichever end sentinel the template has;
\* with rules that hold no sentinel of their own, the text from the prompt's
\* end sentinel on is the template's.
C13_FixedPartsKept ==
    ppc # "init" /\ HasHeader(prompt_template) =>
        /\ FixedPrefix(full_prompt) = FixedPrefix(prompt_template)
        /\ EndsWith(full_prompt, FixedSuffix(prompt_template))
        /\ Len(full_prompt) >= Len(FixedPrefix(prompt_template)) + Len(rules)
                                 + Len(FixedSuffix(prompt_template))
        /\ ~HasSentinel(rules) => FixedSuffix(full_prompt) = FixedSuffix(prompt_template)

\* an intro, the header, default rules, a separator line and a footer: the
\* rules were spliced in between
C13_Witness ==
    /\ ppc = "built"
    /\ prompt_template = <<"I", NL>> \o StartMarker \o <<NL, "d">> \o EndMarker \o <<"F">>
    /\ rules = <<"x", NL>>
    /\ full_prompt = <<"I", NL>> \o StartMarker \o <<NL, NL, "x", NL>> \o EndMarker \o <<"F">>

\* C14: for a template with the header and rules that hold no end sentinel,
\* reading the rules back from the resolved prompt gives the rules, trimmed
\* (so nothing of the template's default rules is left in the region).
C14_RulesReadBack ==
    ppc = "extracted" /\ HasHeader(prompt_template) /\ ~HasSentinel(rules) =>
        extracted = Strip(rules)

\* ---- analyze_frame's parsing as a state machine -------------------------
Prose(k) == [i \in 1..(2 * k) |-> IF i % 2 = 1 THEN "p" ELSE NL]

\* replies around a JSON object: the object alone, in a ```json block after
\* some prose, in a block without the json tag, cut before its closing brace,
\* followed by prose, cut to less or to more than a preview holds
WrappedReplies ==
    UNION {
        {[content |-> ObjText(o), wrap |-> "plain", obj |-> o],
         [content |-> <<Fence, NL>> \o ObjText(o) \o <<NL, Fence>>, wrap |-> "bare fence", obj |-> o],
         [content |-> UpTo(ObjText(o), Len(ObjText(o)) - 1), wrap |-> "truncated", obj |-> o],
         [content |-> ObjText(o) \o <<NL, "p">>, wrap |-> "trailing", obj |-> o],
         [content |-> UpTo(ObjText(o), PreviewLen - 1), wrap |-> "cut short", obj |-> o],
         [content |-> UpTo(ObjText(o), PreviewLen + 1), wrap |-> "cut", obj |-> o]}
        \cup {[content |-> Prose(k) \o <<Fence, "j", NL>> \o ObjText(o) \o <<NL, Fence>>,
               wrap |-> "fenced", obj |-> o] : k \in 0..MaxProseWords}
        : o \in Objects}

\* replies without an object
OtherReplies ==
    {[content |-> c, wrap |-> "other", obj |-> NoObject] :
        c \in {<<>>, <<" ", NL>>, <<"p">>, <<"L">>, <<Fence, "j", NL, "p", NL, Fence>>}}

InitFrame ==
    /\ NoJob
    /\ PromptIdle /\ RequestIdle /\ ReplyIdle /\ VideoIdle /\ UploadIdle
    /\ \E r \in WrappedReplies \cup OtherReplies :
          /\ content = r.content
          /\ wrap = r.wrap
          /\ obj = r.obj
    /\ result = NoResult
    /\ apc = "init"

\* analyze_frame, once the call has returned content
AnalyzeFrame ==
    /\ apc = "init"
    /\ result' = AnalyzeContent(content)
    /\ apc' = "done"
    /\ UNCHANGED <<job, prompt, content, wrap, obj, request, reply, video, upload>>

FrameSpec == InitFrame /\ [][AnalyzeFrame]_vars

\* C15: a reply that is a JSON object in a ```json fenced block, with or
\* without prose before it, gives the description, meta_tags and error that
\* the object alone gives, and gives them through the repair stage.
C15_FencedSameAsPlain ==
    apc = "done" /\ wrap = "fenced" =>
        /\ result.error = AnalyzeContent(ObjText(obj)).error
        /\ result.description = AnalyzeContent(ObjText(obj)).description
        /\ result.meta_tags = AnalyzeContent(ObjText(obj)).meta_tags
        /\ result.error = NoKey => result.stage = 2


\* C16: once a batch was rejected as too large, its frames are processed one
\* at a time in batch order: by the end of the task the fallback has collected
\* the batch's frames in their order, and every frame with an image has had
\* its own single-frame call, whatever happened to the calls of its siblings.
C16_FallbackOneFrameAtATime ==
    \A b \in Batches :
        task[b] = "done" /\ outcome[b] = MsgOversize =>
            /\ individual[b] = frame_batches[b]
            /\ \A f \in FramesOf(b) : frames[f].image_path => single_calls[f] >= 1


\* C17: a request that the transport rejected as too large is never sent
\* again unchanged in the same job: the rejected batch is sent as a whole only
\* once, a rejected batch of one frame leads to no single-frame call for that
\* frame, and no frame is sent in a single-frame call twice.
C17_OversizeNotResent ==
    /\ \A b \in Batches :
           outcome[b] = MsgOversize =>
               /\ batch_calls[b] = 1
               /\ Len(frame_batches[b]) = 1 => single_calls[frame_batches[b][1]] = 0
    /\ \A f \in DOMAIN single_calls : single_calls[f] <= 1

\* a job has returned in which a batch of one frame was rejected as too large
C17_Witness ==
    /\ pc = "returned"
    /\ \E b \in Batches : outcome[b] = MsgOversize /\ Len(frame_batches[b]) = 1


\* ---- formatting the prompt: analyze_frame line 431, analyze_frame_batch
\* ---- lines 751-801 --------------------------------------------------------
\* A template is a sequence of tokens: the braces, the field name timestamp,
\* another name, a word.
FormatTokens == {"{", "}", "timestamp", "x", "a"}
FormatTemplates == SeqsUpTo(FormatTokens, MaxTemplateLen)
\* str(timestamp_seconds)
TimestampText == "7"

Formatted(text) == [ok |-> TRUE, text |-> text, error |-> NoKey]
FormatRaised(kind) == [ok |-> FALSE, text |-> <<>>, error |-> kind]

\* str.format: the position of the "}" that closes the replacement field
\* whose content starts at j, counting nested braces; 0 when the string ends first
RECURSIVE FieldEnd(_, _, _)
FieldEnd(s, j, depth) ==
    IF j > Len(s) THEN 0
    ELSE IF s[j] = "{" THEN FieldEnd(s, j + 1, depth + 1)
    ELSE IF s[j] = "}" THEN (IF depth = 1 THEN j ELSE FieldEnd(s, j + 1, depth - 1))
    ELSE FieldEnd(s, j + 1, depth)

\* str.format(timestamp=...) from position i on, out being the text so far:
\* "{{" and "}}" give one brace, a single "}" or an unclosed "{" is a
\* ValueError, {} an IndexError (no positional argument), {timestamp} the
\* value, any other field name a KeyError
RECURSIVE FormatFrom(_, _, _)
FormatFrom(s, i, out) ==
    IF i > Len(s) THEN Formatted(out)
    ELSE IF s[i] = "}"
    THEN IF i < Len(s) /\ s[i + 1] = "}"
         THEN FormatFrom(s, i + 2, Append(out, "}"))
         ELSE FormatRaised("ValueError")
    ELSE IF s[i] = "{"
    THEN IF i < Len(s) /\ s[i + 1] = "{"
         THEN FormatFrom(s, i + 2, Append(out, "{"))
         ELSE LET j == FieldEnd(s, i + 1, 1)
                  name == SubSeq(s, i + 1, j - 1)
              IN IF j = 0 \/ \E k \in 1..Len(name) : name[k] = "{"
                 THEN FormatRaised("ValueError")
                 ELSE IF name = <<>> THEN FormatRaised("IndexError")
                 ELSE IF name = <<"timestamp">>
                 THEN FormatFrom(s, j + 1, Append(out, TimestampText))
                 ELSE FormatRaised("KeyError")
    ELSE FormatFrom(s, i + 1, Append(out, s[i]))

\* prompt_template.format(timestamp=timestamp_seconds), line 431
Format(template) == FormatFrom(template, 1, <<>>)

\* lines 758-801: the batch prompt is an f-string; a custom template is put
\* into it as it is, the default batch prompt has no template in it
BatchPromptText(template, custom) ==
    IF custom
    THEN <<"Analyze these 1 video frames using the following instructions:">>
         \o template \o <<"IMPORTANT: Return a JSON object ...", "Frame timestamps (in order): ",
                          TimestampText>>
    ELSE <<"Analyze these 1 video frames and provide a JSON response for EACH frame.",
           "IMPORTANT: Return a JSON object ...", "Frame timestamps (in order): ",
           TimestampText>>

InitRequest ==
    /\ NoJob
    /\ PromptIdle /\ FrameIdle /\ ReplyIdle /\ VideoIdle /\ UploadIdle
    /\ resolved \in FormatTemplates
    /\ custom_prompt \in BOOLEAN
    /\ prompt_text = NotSent
    /\ format_error = NoKey
    /\ raised = FALSE
    /\ rpc = "init"

\* analyze_frame, lines 427-431 and then the call, or the handler at lines
\* 675-698 that returns a result dict with the error
FrameRequest ==
    /\ rpc = "init"
    /\ LET f == Format(resolved) IN
       /\ prompt_text' = IF f.ok THEN f.text ELSE NotSent
       /\ format_error' = f.error
    /\ raised' = FALSE
    /\ rpc' = "frame"
    /\ UNCHANGED <<job, prompt, frame_call, reply, video, upload, resolved, custom_prompt>>

\* analyze_frame_batch, lines 751-849: the prompt text is built and sent
BatchRequest ==
    /\ rpc = "init"
    /\ prompt_text' = BatchPromptText(resolved, custom_prompt)
    /\ rpc' = "batch"
    /\ UNCHANGED <<job, prompt, frame_call, reply, video, upload, resolved, custom_prompt, format_error,
                   raised>>

RequestSpec == InitRequest /\ [][FrameRequest \/ BatchRequest]_vars

\* C18: when the resolved prompt text has a malformed placeholder, the
\* analysis ends with an exception for the job, no request is made, and no
\* per-frame error is reported in its place.
C18_MalformedPlaceholderIsFatal ==
    rpc \in {"frame", "batch"} /\ ~Format(resolved).ok =>
        /\ raised
        /\ prompt_text = NotSent
        /\ format_error = NoKey


\* C19: for a template without the ANALYSIS RULES header, the prompt built
\* from any custom rules is the template itself, and the rules read from it
\* are the empty string.
C19_NoHeaderLeavesTemplate ==
    ~HasHeader(prompt_template) =>
        /\ ppc \in {"built", "extracted"} => full_prompt = prompt_template
        /\ ppc = "extracted" => extracted = <<>>

\* a non-empty template without the header went through both functions
C19_Witness ==
    /\ ppc = "extracted"
    /\ ~HasHeader(prompt_template)
    /\ prompt_template # <<>>
    /\ rules # <<>>


\* ---- selecting the result array: analyze_frame_batch lines 859-894 ------
\* A decoded reply is a top-level array, an object, or something else; an
\* object is the sequence of its properties in the order of the JSON text,
\* each with its key and, when its value is an array, the array's elements.
Property(key, list, items) == [key |-> key, list |-> list, items |-> items]
Properties ==
    {Property(k, FALSE, <<>>) : k \in {"timestamp", "description", "note"}}
    \cup {Property("frames", TRUE, <<ObjFull>>), Property("items", TRUE, <<ObjFull>>),
          Property("data", TRUE, <<ObjBare>>), Property("data", TRUE, <<>>)}

DictResponse(props) == [type |-> "dict", props |-> props, items |-> <<>>]
ListResponse(items) == [type |-> "list", props |-> <<>>, items |-> items]
ScalarResponse == [type |-> "scalar", props |-> <<>>, items |-> <<>>]

\* the keys of a JSON object are distinct
Responses ==
    {DictResponse(ps) : ps \in {q \in SeqsUpTo(Properties, MaxProps) :
                                   \A i, j \in 1..Len(q) : q[i].key = q[j].key => i = j}}
    \cup {ListResponse(it) : it \in SeqsUpTo(ResultElems, 1)}
    \cup {ScalarResponse}

\* key in json_response
HasKey(r, key) == \E i \in 1..Len(r.props) : r.props[i].key = key
\* json_response[key]
ValueOf(r, key) == r.props[CHOOSE i \in 1..Len(r.props) : r.props[i].key = key]
\* the positions of the array-valued properties
ListProps(r) == {i \in 1..Len(r.props) : r.props[i].list}
\* [json_response]: the object as an element of the result array
AsElement(r) ==
    [kind |-> "object",
     timestamp |-> IF HasKey(r, "timestamp") THEN <<1>> ELSE <<>>,
     description |-> IF HasKey(r, "description") THEN "a cat" ELSE NoKey,
     ocr_text |-> NoKey, meta_tags |-> NoKey]

\* a faulty search: the last array-valued property wins
SelectResultsLastArray(r) ==
    IF r.type = "dict" /\ HasKey(r, "frames") THEN Parsed(ValueOf(r, "frames").items)
    ELSE IF r.type = "list" THEN Parsed(r.items)
    ELSE IF r.type = "dict" THEN
        IF HasKey(r, "timestamp") \/ HasKey(r, "description") THEN Parsed(<<AsElement(r)>>)
        ELSE IF ListProps(r) # {}
        THEN Parsed(r.props[CHOOSE i \in ListProps(r) : \A j \in ListProps(r) : j <= i].items)
        ELSE ParseError(PrefixBatch, MsgNoFrames)
    ELSE ParseError(PrefixBatch, MsgUnexpected)

\* lines 868-894: results, or the ValueError that line 943 catches
SelectResults(r) ==
    IF r.type = "dict" /\ HasKey(r, "frames") THEN Parsed(ValueOf(r, "frames").items)
    ELSE IF r.type = "list" THEN Parsed(r.items)
    ELSE IF r.type = "dict" THEN
        IF HasKey(r, "timestamp") \/ HasKey(r, "description") THEN Parsed(<<AsElement(r)>>)
        ELSE IF ListProps(r) # {}
        THEN Parsed(r.props[CHOOSE i \in ListProps(r) : \A j \in ListProps(r) : i <= j].items)
        ELSE ParseError(PrefixBatch, MsgNoFrames)
    ELSE ParseError(PrefixBatch, MsgUnexpected)

\* frames_batch of the call whose reply is interpreted: all the frames
FramesBatch == [i \in 1..Len(frames) |-> i]

InitReply ==
    /\ settings_custom = FALSE
    /\ use_custom_gpt = FALSE
    /\ client = TRUE
    /\ user_key = FALSE
    /\ \E n \in 1..MaxFrames : frames = [i \in 1..n |-> NewFrame(i - 1, TRUE)]
    /\ batch_size = 1
    /\ max_workers = 1
    /\ Idle
    /\ PromptIdle /\ FrameIdle /\ RequestIdle /\ VideoIdle /\ UploadIdle
    /\ json_response \in Responses
    /\ selected = Parsed(<<>>)
    /\ jpc = "init"

\* analyze_frame_batch from json.loads on: lines 859-957
InterpretReply ==
    /\ jpc = "init"
    /\ selected' = SelectResults(json_response)
    /\ frames' = InterpretParsed(frames, FramesBatch, SelectResults(json_response)).fr
    /\ jpc' = "done"
    /\ UNCHANGED <<config, args, pc, frame_batches, semaphore, task, fallback, individual,
                   batch_results, analyzed_frames, history, first_done, last_reply,
                   prompt, frame_call, request, video, upload, json_response>>

ReplySpec == InitReply /\ [][InterpretReply]_vars

\* C20: for a decoded reply without a frames key, the result array is: the
\* reply itself when it is an array; else the one-element array of the reply
\* when it is an object with a timestamp or description key; else the value
\* of the object's first array-valued property; otherwise there is no result
\* array and every frame of the batch is marked with an error.
C20_ResultArrayPriority ==
    jpc = "done" /\ ~HasKey(json_response, "frames") =>
        LET r == json_response
            single == HasKey(r, "timestamp") \/ HasKey(r, "description")
        IN /\ r.type = "list" => selected = Parsed(r.items)
           /\ r.type = "dict" /\ single => selected = Parsed(<<AsElement(r)>>)
           /\ r.type = "dict" /\ ~single =>
                 \A i \in ListProps(r) :
                     (\A j \in 1..(i - 1) : ~r.props[j].list) => selected = Parsed(r.props[i].items)
           /\ ~(r.type = "list" \/ (r.type = "dict" /\ (single \/ ListProps(r) # {}))) =>
                 /\ ~selected.ok
                 /\ \A f \in DOMAIN frames : frames[f].error # NoKey

\* an object with two array-valued properties of different content, and no
\* frames, timestamp or description key, was interpreted
C20_Witness ==
    /\ jpc = "done"
    /\ json_response.type = "dict"
    /\ ~HasKey(json_response, "frames")
    /\ ~HasKey(json_response, "timestamp") /\ ~HasKey(json_response, "description")
    /\ \E i, j \in ListProps(json_response) :
          i < j /\ json_response.props[i].items # json_response.props[j].items


\* C21: when the reply decodes to an object whose description is missing,
\* empty or not a string, the frame's result has a non-empty string as its
\* description and no error: on the single-frame path (the result of
\* analyze_frame) and on the batch path (the frame the result was stored on).
C21_DescriptionPlaceholder ==
    /\ apc = "done" /\ wrap = "plain"
       /\ obj.description \in {MissingDesc, <<>>, NotString, ListDesc} =>
           /\ result.error = NoKey
           /\ result.description \notin {MissingDesc, <<>>, NotString, ListDesc}
    /\ jpc = "done" /\ selected.ok =>
           \A f \in DOMAIN frames :
               f <= Len(selected.results) /\ selected.results[f].kind = "object"
               /\ selected.results[f].description = NoKey =>
                   /\ frames[f].error = NoKey
                   /\ frames[f].description \notin {NoKey, ""}


\* what the three parse stages of analyze_frame decode for the content
DirectDecode == Decode(Strip(content))
RepairDecode ==
    Decode(RepairJson(ExtractObject(Strip(StripMarkdownCodeBlocks(Strip(content))))))
FinalDecode == Decode(RepairJson(content))
\* every stage ends in a json.JSONDecodeError
AllStagesFail ==
    /\ Strip(content) # <<>>
    /\ DirectDecode.kind = "JSONDecodeError"
    /\ RepairDecode.kind = "JSONDecodeError"
    /\ FinalDecode.kind = "JSONDecodeError"

\* the parse stages are tried in order, each only when the one before it
\* failed, and when all fail a result with the error field set comes back
StagesInOrder ==
    /\ result.stage = 1 => DirectDecode.kind = "dict"
    /\ result.stage = 2 => DirectDecode.kind = "JSONDecodeError" /\ RepairDecode.kind = "dict"
    /\ result.stage = 3 =>
           /\ DirectDecode.kind = "JSONDecodeError"
           /\ RepairDecode.kind = "JSONDecodeError"
           /\ FinalDecode.kind = "dict"
    /\ DirectDecode.kind = "dict" => result.stage \in {0, 1}
    /\ RepairDecode.kind = "dict" => result.stage \in {0, 1, 2}
    /\ AllStagesFail => result.error # NoKey /\ result.stage = 0

\* C22 as stated: the stages are tried in order, and the error text of a
\* failed parse never has the full raw response in it.
C22_StagesInOrderNoFullText ==
    apc = "done" =>
        /\ StagesInOrder
        /\ result.error # NoKey /\ content # <<>> => result.preview # content

\* C22: the stages are tried in order, and the error text of a failed parse
\* has at most the first PreviewLen tokens of the raw response in it: a
\* response longer than that is never in it in full.
C22_StagesInOrderBoundedPreview ==
    apc = "done" =>
        /\ StagesInOrder
        /\ result.preview \in {<<>>, UpTo(content, PreviewLen)}
        /\ result.error # NoKey /\ Len(content) > PreviewLen => result.preview # content

\* all stages failed on a response longer than the preview, and the error
\* text has the start of the response in it
C22_Witness ==
    /\ apc = "done"
    /\ AllStagesFail
    /\ Len(content) > PreviewLen
    /\ result.preview # <<>>


\* ---- VideoProcessor.extract_frames: video_processor.py lines 46-81 ------
\* frame_interval = int(fps), the frame rate being given in halves
FrameInterval(halves) == halves \div 2

\* a faulty test: the last frame of every second is taken
SampledAtEnd(count, interval) == (count + 1) % interval = 0

\* line 66: frame_count % frame_interval == 0
Sampled(count, interval) == count % interval = 0

\* a video with a frame rate of at least 1 that opens, or a path that does not
InitVideo ==
    /\ NoJob
    /\ PromptIdle /\ FrameIdle /\ RequestIdle /\ ReplyIdle /\ UploadIdle
    /\ cap_opened \in BOOLEAN
    /\ fps_halves \in 2..(2 * MaxFps)
    /\ video_len \in 0..MaxVideoLen
    /\ frame_count = 0
    /\ second = 0
    /\ extracted_frames = <<>>
    /\ vpc = "init"

\* lines 49-57: the capture is opened, or the exception of line 52
OpenVideo ==
    /\ vpc = "init"
    /\ vpc' = IF cap_opened THEN "reading" ELSE "raised"
    /\ UNCHANGED <<job, prompt, frame_call, request, reply, upload, cap_opened, fps_halves, video_len,
                   frame_count, second, extracted_frames>>

\* lines 59-78: cap.read() gives the next frame, which is kept when sampled
ReadFrame ==
    /\ vpc = "reading"
    /\ frame_count < video_len
    /\ IF Sampled(frame_count, FrameInterval(fps_halves))
       THEN /\ extracted_frames' = Append(extracted_frames,
                                         [second |-> second, frame_number |-> frame_count])
            /\ second' = second + 1
       ELSE UNCHANGED <<extracted_frames, second>>
    /\ frame_count' = frame_count + 1
    /\ UNCHANGED <<job, prompt, frame_call, request, reply, upload, cap_opened, fps_halves, video_len,
                   vpc>>

\* lines 60-62 and 80-81: cap.read() gives no frame, the list is returned
EndOfVideo ==
    /\ vpc = "reading"
    /\ frame_count = video_len
    /\ vpc' = "returned"
    /\ UNCHANGED <<job, prompt, frame_call, request, reply, upload, cap_opened, fps_halves, video_len,
                   frame_count, second, extracted_frames>>

VideoSpec == InitVideo /\ [][OpenVideo \/ ReadFrame \/ EndOfVideo]_vars

\* C23: the frames of an opened video have the seconds 0, 1, 2, ... in this
\* order and the frame numbers second * int(fps); of the source frames read
\* so far exactly those with an index divisible by int(fps) were taken; a
\* video that does not open ends in the exception with no frame produced.
C23_OneFramePerInterval ==
    LET interval == fps_halves \div 2 IN
    /\ \A i \in 1..Len(extracted_frames) :
           /\ extracted_frames[i].second = i - 1
           /\ extracted_frames[i].frame_number = (i - 1) * interval
    /\ {extracted_frames[i].frame_number : i \in 1..Len(extracted_frames)}
          = {c \in 0..(frame_count - 1) : c % interval = 0}
    /\ vpc = "returned" => cap_opened /\ frame_count = video_len
    /\ vpc \in {"init", "reading", "returned", "raised"} /\ ~cap_opened =>
           /\ extracted_frames = <<>>
           /\ vpc \in {"init", "raised"}

\* a video with a fractional frame rate of 2.5 or more was read to its end and
\* gave at least three frames
C23_Witness ==
    /\ vpc = "returned"
    /\ fps_halves % 2 = 1
    /\ fps_halves >= 5
    /\ Len(extracted_frames) >= 3

\* C24: no step of a job changes the timestamp, the frame number or the image
\* path of a frame, and the frames of the returned list carry the timestamps
\* the caller gave them (position i: i - 1), whatever timestamp the results
\* of the replies report.
C24_IdentityFieldsKept ==
    [][/\ DOMAIN frames' = DOMAIN frames
       /\ \A f \in DOMAIN frames :
              /\ frames'[f].timestamp = frames[f].timestamp
              /\ frames'[f].frame_number = frames[f].frame_number
              /\ frames'[f].image_path = frames[f].image_path
       /\ pc' = "returned" =>
              \A k \in 1..Len(analyzed_frames') :
                  /\ frames'[analyzed_frames'[k]].timestamp = analyzed_frames'[k] - 1
                  /\ frames'[analyzed_frames'[k]].frame_number = analyzed_frames'[k] - 1]_vars

\* a job returned two frames; the first one holds a result that reports the
\* timestamp of the second
C24_Witness ==
    /\ pc = "returned"
    /\ Len(analyzed_frames) = 2
    /\ frames[analyzed_frames[1]].error = NoKey
    /\ frames[analyzed_frames[1]].gpt_response.timestamp = <<1>>
    /\ frames[analyzed_frames[1]].timestamp = 0


\* C25: in a whole-batch call the images sent are the images of the batch's
\* frames, one per frame and in the same order, and result i of a reply is
\* stored on the frame whose image was the i-th image of the call.
C25_ImagesAlignedWithFrames ==
    /\ \A b \in Batches :
           task[b] = "calling" /\ fallback[b] = 0 =>
               WithImage(frames, Current(b)) = Current(b)
    /\ \A i \in 1..Min(Len(last_reply.results), Len(last_reply.list)) :
           /\ i <= Len(WithImage(frames, last_reply.list))
           /\ WithImage(frames, last_reply.list)[i] = last_reply.list[i]


\* ---- a second job on the same frame dicts -------------------------------
\* The caller hands the list of a finished job to batch_analyze_frames again
\* (lines 960-968): the job's own state starts afresh, the frame dicts keep
\* what the earlier job wrote on them.
Resubmit ==
    /\ pc = "returned"
    /\ pc' = "idle"
    /\ frame_batches' = <<>>
    /\ semaphore' = 0
    /\ task' = <<>>
    /\ fallback' = <<>>
    /\ individual' = <<>>
    /\ batch_results' = <<>>
    /\ analyzed_frames' = <<>>
    /\ batch_calls' = <<>>
    /\ single_calls' = [i \in DOMAIN frames |-> 0]
    /\ outcome' = <<>>
    /\ first_done' = 0
    /\ last_reply' = NoReply
    /\ sent' = [i \in DOMAIN frames |-> FALSE]
    /\ transports' = {}
    /\ UNCHANGED <<config, args, others, frames, deviations>>

RetrySpec == Init /\ [][Next \/ Resubmit]_vars

\* the latest job stored a result of the reply on frame f
Succeeded(f) ==
    /\ pc = "returned"
    /\ \E b \in Batches : f \in FramesOf(b) /\ outcome[b] = "ok"
    /\ frames[f].image_path
    /\ frames[f].description # "No analysis result"

\* C26: a frame on which the latest job stored a result has no error field,
\* also when an earlier job on the same frame dicts had marked it failed.
C26_SuccessClearsError ==
    \A f \in DOMAIN frames : Succeeded(f) => frames[f].error = NoKey


\* ---- the merge step on its own: lines 1153-1176 -------------------------
\* The state after the gather of line 1155: the batches were planned from the
\* arguments, and every task either returned its batch analyzed or ended in
\* an exception.
InitGathered ==
    /\ settings_custom \in BOOLEAN
    /\ use_custom_gpt = settings_custom
    /\ client = TRUE
    /\ user_key = FALSE
    /\ batch_size \in 1..MaxPlanBatchSize
    /\ max_workers = 1
    /\ \E n \in 1..MaxPlanFrames :
       LET fb == FrameBatches(n, EffectiveBatchSize(use_custom_gpt, batch_size)) IN
       \E failed \in SUBSET DOMAIN fb :
          /\ frame_batches = fb
          /\ batch_results = [b \in DOMAIN fb |->
                                 IF b \in failed THEN Raised(MsgIO) ELSE Returned(fb[b])]
          /\ frames = [i \in 1..n |->
                          IF \E b \in DOMAIN fb \ failed : \E j \in 1..Len(fb[b]) : fb[b][j] = i
                          THEN ResultUpdate(NewFrame(i - 1, TRUE), ObjFull)
                          ELSE NewFrame(i - 1, TRUE)]
          /\ outcome = [b \in DOMAIN fb |-> IF b \in failed THEN MsgIO ELSE "ok"]
          /\ task = [b \in DOMAIN fb |-> "done"]
          /\ fallback = [b \in DOMAIN fb |-> 0]
          /\ individual = [b \in DOMAIN fb |-> <<>>]
          /\ batch_calls = [b \in DOMAIN fb |-> IF b \in failed THEN 0 ELSE 1]
          /\ single_calls = [i \in 1..n |-> 0]
          /\ sent = [i \in 1..n |->
                        \E b \in DOMAIN fb \ failed : \E j \in 1..Len(fb[b]) : fb[b][j] = i]
          /\ transports = IF failed = DOMAIN fb THEN {} ELSE {Transport(use_custom_gpt)}
    /\ pc = "dispatching"
    /\ semaphore = max_workers
    /\ analyzed_frames = <<>>
    /\ first_done = 1
    /\ last_reply = NoReply
    /\ deviations = 0
    /\ PromptIdle /\ FrameIdle /\ RequestIdle /\ ReplyIdle /\ VideoIdle /\ UploadIdle

MergeSpec == InitGathered /\ [][Merge]_vars

\* C27: after the merge every input frame is in the output exactly once, and
\* the frames marked with the exception's message are exactly the frames of
\* the batches whose gathered outcome was an exception.
C27_ExceptionMarksOwnBatch ==
    pc = "returned" =>
        /\ Len(analyzed_frames) = NumFrames
        /\ \A f \in DOMAIN frames :
              /\ Occurrences(analyzed_frames, f) = 1
              /\ frames[f].error = MsgIO <=>
                    \E b \in Batches : f \in FramesOf(b) /\ batch_results[b].exc


\* C28: no step turns use_custom_gpt from true to false: neither a change of
\* the settings nor the re-check at the start of a later job.
C28_CustomBackendIsKept ==
    [][use_custom_gpt => use_custom_gpt']_vars

\* a job ran on the custom backend to its end although the settings had been
\* cleared before it started
C28_Witness ==
    /\ pc = "returned"
    /\ use_custom_gpt
    /\ ~settings_custom
    /\ transports = {"custom"}


\* ---- video file numbers: video_file_number_service.py lines 16-120 ------
\* A number VF-<year>-<digits> is held as its year and its digit string.
ThisYear == "current year"
LastYear == "previous year"

\* str(next_seq)
RECURSIVE Str(_)
Str(n) == IF n < 10 THEN <<n>> ELSE Str(n \div 10) \o <<n % 10>>

\* str.zfill(width)
RECURSIVE ZFill(_, _)
ZFill(s, width) == IF Len(s) >= width THEN s ELSE ZFill(<<0>> \o s, width)

\* RIGHT(video_file_number, k): the digit string has at least k characters
Right(s, k) == SubSeq(s, Len(s) - k + 1, Len(s))

\* CAST(... AS INTEGER)
RECURSIVE Cast(_)
Cast(s) == IF s = <<>> THEN 0 ELSE 10 * Cast(SubSeq(s, 1, Len(s) - 1)) + s[Len(s)]

\* lines 32-61: the sequence number as the query reads it from a stored number
SeqRead(digits, dialect) ==
    IF dialect \in {"mssql", "mysql"} THEN Cast(Right(digits, SeqWidth))
    ELSE Cast(digits)

Max(S) == CHOOSE m \in S : \A x \in S : x <= m

\* lines 63-66: COALESCE(MAX(...), 0) over the rows LIKE 'VF-<year>-%'
MaxSeq(rows, dialect) ==
    LET seqs == {SeqRead(rows[i].digits, dialect) :
                    i \in {j \in DOMAIN rows : rows[j].year = ThisYear}}
    IN IF seqs = {} THEN 0 ELSE Max(seqs)

\* lines 90-120
GenerateVideoFileNumber(rows, dialect) ==
    [year |-> ThisYear, digits |-> ZFill(Str(MaxSeq(rows, dialect) + 1), SeqWidth)]

\* ---- VideoUploadService.create_upload: video_upload_service.py 31-131 ---
Calls == 1..MaxCalls
NoNumber == [year |-> "none", digits |-> <<>>]
Row(number, call) == [year |-> number.year, digits |-> number.digits, by |-> call]
NumberOf(row) == [year |-> row.year, digits |-> row.digits]

\* database.py line 234, unique=True: the insert is refused
UniqueViolation(rows, number) == \E i \in DOMAIN rows : NumberOf(rows[i]) = number

\* rows that earlier uploads left, some of them deleted since (line 564)
ExistingSeqs == {1, 9998, 9999, 10000}
RECURSIVE Ascending(_)
Ascending(S) == IF S = {} THEN <<>>
                ELSE LET m == Max(S) IN Append(Ascending(S \ {m}), m)

InitUpload ==
    /\ NoJob
    /\ PromptIdle /\ FrameIdle /\ RequestIdle /\ ReplyIdle /\ VideoIdle
    /\ db_dialect \in {"mssql", "mysql", "postgresql"}
    /\ \E S \in SUBSET ExistingSeqs : \E old \in BOOLEAN :
          /\ Cardinality(S) <= MaxExisting
          /\ LET now == [i \in 1..Cardinality(S) |->
                            Row([year |-> ThisYear,
                                 digits |-> ZFill(Str(Ascending(S)[i]), SeqWidth)], 0)]
             IN video_uploads =
                   IF old THEN <<Row([year |-> LastYear, digits |-> ZFill(Str(7), SeqWidth)], 0)>>
                               \o now
                   ELSE now
    /\ upc = [c \in Calls |-> "generate"]
    /\ retry_count = [c \in Calls |-> 0]
    /\ video_file_number = [c \in Calls |-> NoNumber]
    /\ generated = [c \in Calls |-> 0]
    /\ db_errors = 0

\* lines 121-128: any other exception, rollback and raise
OtherError(c) ==
    /\ upc[c] \in {"generate", "commit", "refresh"}
    /\ db_errors < MaxDbErrors
    /\ db_errors' = db_errors + 1
    /\ upc' = [upc EXCEPT ![c] = "raised"]
    /\ UNCHANGED <<job, prompt, frame_call, request, reply, video, db_dialect, video_uploads,
                   retry_count, video_file_number, generated>>

\* line 44: the query of generate_video_file_number sees the committed rows
Generate(c) ==
    /\ upc[c] = "generate"
    /\ video_file_number' = [video_file_number EXCEPT
                                ![c] = GenerateVideoFileNumber(video_uploads, db_dialect)]
    /\ generated' = [generated EXCEPT ![c] = @ + 1]
    /\ upc' = [upc EXCEPT ![c] = "commit"]
    /\ UNCHANGED <<job, prompt, frame_call, request, reply, video, db_dialect, video_uploads,
                   retry_count, db_errors>>

\* lines 68-69 and 79-120: the insert is committed, or refused by the constraint
Commit(c) ==
    /\ upc[c] = "commit"
    /\ IF UniqueViolation(video_uploads, video_file_number[c])
       THEN /\ IF retry_count[c] < MaxRetries - 1
               THEN /\ retry_count' = [retry_count EXCEPT ![c] = @ + 1]
                    /\ upc' = [upc EXCEPT ![c] = "generate"]
               ELSE /\ upc' = [upc EXCEPT ![c] = "raised"]
                    /\ UNCHANGED retry_count
            /\ UNCHANGED video_uploads
       ELSE /\ video_uploads' = Append(video_uploads, Row(video_file_number[c], c))
            /\ upc' = [upc EXCEPT ![c] = "refresh"]
            /\ UNCHANGED retry_count
    /\ UNCHANGED <<job, prompt, frame_call, request, reply, video, db_dialect,
                   video_file_number, generated, db_errors>>

\* lines 70-77
Refresh(c) ==
    /\ upc[c] = "refresh"
    /\ upc' = [upc EXCEPT ![c] = "returned"]
    /\ UNCHANGED <<job, prompt, frame_call, request, reply, video, db_dialect, video_uploads,
                   retry_count, video_file_number, generated, db_errors>>

UploadSpec ==
    InitUpload /\ [][\E c \in Calls : Generate(c) \/ Commit(c) \/ Refresh(c) \/ OtherError(c)]_vars


\* C29: no two committed uploads have the same number; a call generates at
\* most max_retries numbers, one more than the violations it met; a call that
\* raised has left no row in the table.
C29_UniqueNumbersBoundedRetries ==
    /\ \A i, j \in DOMAIN video_uploads :
           i # j => NumberOf(video_uploads[i]) # NumberOf(video_uploads[j])
    /\ \A c \in Calls :
           /\ generated[c] <= MaxRetries
           /\ retry_count[c] <= MaxRetries - 1
           /\ upc[c] = "generate" => generated[c] = retry_count[c]
           /\ upc[c] \in {"commit", "refresh", "returned"} => generated[c] = retry_count[c] + 1
           /\ upc[c] = "raised" => \A i \in DOMAIN video_uploads : video_uploads[i].by # c


\* C30: the number that generate_video_file_number returns is of the current
\* year, its sequence number is padded with zeros to at least 4 digits and is
\* greater than the sequence number of every current-year row that the table
\* holds at that moment.
C30_NextNumberAboveAll ==
    [][\A c \in Calls :
          upc[c] = "generate" /\ upc'[c] = "commit" =>
              LET number == video_file_number'[c] IN
              /\ number.year = ThisYear
              /\ Len(number.digits) >= SeqWidth
              /\ number.digits = ZFill(Str(Cast(number.digits)), SeqWidth)
              /\ \A i \in DOMAIN video_uploads :
                    video_uploads[i].year = ThisYear =>
                        Cast(number.digits) > Cast(video_uploads[i].digits)]_vars
====
